---- MODULE Spec2Model ----
(***************************************************************************)
(* A model of the normalization core of the JioSaavn API client:           *)
(* the leaf helpers (extractToken, createImageSources,                     *)
(* createDownloadLinks), buildPaginated, the error wrapper and the public  *)
(* operations of JioSaavnClient (src/core/client.ts).                      *)
(*                                                                         *)
(* Strings on which the code computes (trim, replace, split) are           *)
(* sequences of one-character strings; JavaScript values are records       *)
(* tagged by k.                                                            *)
(***************************************************************************)
EXTENDS Integers, Sequences, FiniteSets, TLC

VARIABLES
    pc,         \* position of the one client call in flight
    op,         \* the public operation called
    args,       \* the options value the caller passed
    step,       \* getSongSuggestions: which request is outstanding
    stationId,  \* getSongSuggestions: the station id read from step one
    requests,   \* the transport requests issued by the call, in order
    upstream,   \* the transport outcomes delivered to the call, in order
    result,     \* the settled promise of the call
    extractedToken, \* get-by-link: what extractToken made of options.link
    leaf,       \* the last call of a pure helper: [fn, in, out]
    config,     \* the configuration of every client instance constructed
    defaultClient, \* the instance the module functions call
    calls       \* the calls in flight at the same time

vars ==
    <<pc, op, args, step, stationId, requests, upstream, result,
      extractedToken, leaf, config, defaultClient, calls>>

concurrentVars == <<config, defaultClient, calls>>

singleCallVars ==
    <<pc, op, args, step, stationId, requests, upstream, result,
      extractedToken, leaf>>

clientVars ==
    <<pc, op, args, step, stationId, requests, upstream, result,
      extractedToken, config, defaultClient, calls>>

-----------------------------------------------------------------------------
(* Bounds of the model *)

MaxResults == 2

MaxTotal == 3

MaxPage == 2

MaxParts == 3

MaxTemplateParts == 3

MaxSegments == 3

-----------------------------------------------------------------------------
(* JavaScript values *)

JUndefined == [k |-> "undefined"]

JNull == [k |-> "null"]

JNaN == [k |-> "NaN"]

JNum(n) == [k |-> "number", n |-> n]

JStr(s) == [k |-> "string", s |-> s]

JBool(b) == [k |-> "boolean", b |-> b]

\* A string the code only passes along or compares (a message, a status, a
\* type tag): typeof "string", its text kept whole.
JText(t) == [k |-> "text", t |-> t]

JArray(items) == [k |-> "array", items |-> items]

\* An object with exactly these properties.
JObj(fields) == [k |-> "object", f |-> fields]

\* An object decoded from JSON: a property without a value is absent.
Obj(fields) ==
    JObj([key \in {x \in DOMAIN fields : fields[x] # JUndefined} |-> fields[key]])

JObject == JObj(<<>>)

IsNullish(v) == v.k \in {"undefined", "null"}

TypeOf(v) ==
    CASE v.k = "undefined" -> "undefined"
      [] v.k \in {"number", "NaN"} -> "number"
      [] v.k \in {"string", "text"} -> "string"
      [] v.k = "boolean" -> "boolean"
      [] OTHER -> "object"

\* value[key] on a value that is not null or undefined.
Get(v, key) ==
    IF v.k = "object" /\ key \in DOMAIN v.f THEN v.f[key] ELSE JUndefined

\* value?.[key]
OptGet(v, key) == IF IsNullish(v) THEN JUndefined ELSE Get(v, key)

\* The strings of the model, as character sequences.
RECURSIVE Concat(_)
Concat(parts) ==
    IF parts = <<>> THEN <<>> ELSE Head(parts) \o Concat(Tail(parts))

\* All sequences over S of length at most n.
SeqsUpTo(S, n) == UNION {[1..m -> S] : m \in 0..n}

Digits == {"0", "1", "2", "3", "4", "5", "6", "7", "8", "9"}

DigitVal(c) ==
    CASE c = "0" -> 0 [] c = "1" -> 1 [] c = "2" -> 2 [] c = "3" -> 3
      [] c = "4" -> 4 [] c = "5" -> 5 [] c = "6" -> 6 [] c = "7" -> 7
      [] c = "8" -> 8 [] c = "9" -> 9

RECURSIVE DecimalValue(_)
DecimalValue(s) ==
    IF s = <<>> THEN 0
    ELSE 10 * DecimalValue(SubSeq(s, 1, Len(s) - 1)) + DigitVal(s[Len(s)])

\* String.prototype.trim
RECURSIVE TrimLeft(_)
TrimLeft(s) == IF s # <<>> /\ Head(s) = " " THEN TrimLeft(Tail(s)) ELSE s

RECURSIVE TrimRight(_)
TrimRight(s) ==
    IF s # <<>> /\ s[Len(s)] = " " THEN TrimRight(SubSeq(s, 1, Len(s) - 1)) ELSE s

Trim(s) == TrimRight(TrimLeft(s))

\* Number(value): the ToNumber conversion on the values of the model.
Number(v) ==
    CASE v.k = "undefined" -> JNaN
      [] v.k = "null" -> JNum(0)
      [] v.k = "NaN" -> JNaN
      [] v.k = "number" -> v
      [] v.k = "boolean" -> JNum(IF v.b THEN 1 ELSE 0)
      [] v.k = "array" /\ v.items = <<>> -> JNum(0)
      [] v.k = "string" ->
            LET t == Trim(v.s) IN
            IF \A i \in 1..Len(t) : t[i] \in Digits
            THEN JNum(DecimalValue(t)) ELSE JNaN
      [] OTHER -> JNaN

\* a ?? b
Coalesce(a, b) == IF a.k \in {"undefined", "null"} THEN b ELSE a

\* !value
Falsy(v) ==
    \/ v.k \in {"undefined", "null", "NaN"}
    \/ v.k = "number" /\ v.n = 0
    \/ v.k = "string" /\ v.s = <<>>
    \/ v.k = "text" /\ v.t = ""
    \/ v.k = "boolean" /\ ~v.b

\* a >= n and a <= n for a number n: false when a converts to NaN.
JsGE(a, n) == LET x == Number(a) IN x.k = "number" /\ x.n >= n

JsLE(a, n) == LET x == Number(a) IN x.k = "number" /\ x.n <= n

-----------------------------------------------------------------------------
(* buildPaginated, src/core/utils.ts *)

MinPage == 1

MaxLimit == 40

buildPaginated(results, total, page, limit) ==
    [total |-> Coalesce(Number(total), JNum(Len(results))),
     page |-> IF JsGE(page, MinPage) THEN Number(page) ELSE JNum(MinPage),
     limit |-> IF JsLE(limit, MaxLimit) THEN Number(limit) ELSE JNum(MaxLimit),
     results |-> results]

PageItems == {"a", "b", "c"}

PageTotals ==
    {JUndefined, JNull, JNaN, JStr(<<"7">>), JStr(<<"a", "b">>)}
        \cup {JNum(n) : n \in 0..MaxTotal}

PageNumbers == {JNum(n) : n \in 0..MaxPage}

PageLimits == {JNum(10), JNum(MaxLimit - 1), JNum(MaxLimit), JNum(MaxLimit + 1)}

\* The call of a pure helper that has not been applied yet.
Pending == [k |-> "pending"]

\* The calls that run at the same time, and the client instances constructed.
MaxCalls == 2

MaxClients == 2

Calls == 1..MaxCalls

\* constructor(config: ClientConfig = {}) { this.config = config }
JioSaavnClient(clientConfig) == clientConfig

\* A call not yet made.
IdleCall ==
    [pc |-> "idle", op |-> "none", client |-> 0, step |-> 0, requests |-> <<>>,
     signal |-> "none", timers |-> <<>>, received |-> <<>>, result |-> Pending]

InitConcurrent ==
    /\ config = <<JioSaavnClient(JObject)>>
    /\ defaultClient = 1
    /\ calls = [c \in Calls |-> IdleCall]

InitClient ==
    /\ InitConcurrent
    /\ pc = "idle"
    /\ op = "none"
    /\ args = [k |-> "none"]
    /\ step = 0
    /\ stationId = JUndefined
    /\ requests = <<>>
    /\ upstream = <<>>
    /\ result = Pending
    /\ extractedToken = JUndefined

InitPaginated ==
    /\ InitClient
    /\ \E results \in SeqsUpTo(PageItems, MaxResults), total \in PageTotals,
          page \in PageNumbers, limit \in PageLimits :
            leaf = [fn |-> "buildPaginated",
                    in |-> [results |-> results, total |-> total,
                            page |-> page, limit |-> limit],
                    out |-> Pending]

BuildPaginated ==
    /\ leaf.fn = "buildPaginated"
    /\ leaf.out = Pending
    /\ leaf' = [leaf EXCEPT !.out = buildPaginated(leaf.in.results, leaf.in.total,
                                                   leaf.in.page, leaf.in.limit)]
    /\ UNCHANGED clientVars

NextPaginated == BuildPaginated

SpecPaginated == InitPaginated /\ [][NextPaginated]_vars

-----------------------------------------------------------------------------
(* Completions of a synchronous computation: a value returned or an error
   thrown. *)

Return(v) == [k |-> "return", v |-> v]

Throw(e) == [k |-> "throw", error |-> e]

\* const x = f(...); rest: when f throws, the throw is the completion of the
\* whole and rest does not run.
Then(completion, rest(_)) ==
    IF completion.k = "throw" THEN completion ELSE rest(completion.v)

\* const x = value; rest
Bind(value, rest(_)) == rest(value)

\* A native error raised by the runtime (TypeError and the like).
NativeError(name, message) ==
    [k |-> "Error", name |-> name, message |-> message]

-----------------------------------------------------------------------------
(* String helpers on character sequences *)

StartsWith(s, p) == Len(p) <= Len(s) /\ SubSeq(s, 1, Len(p)) = p

MatchAt(s, i, p) == i + Len(p) - 1 <= Len(s) /\ SubSeq(s, i, i + Len(p) - 1) = p

\* The leftmost position at which one of the alternatives matches, 0 if none.
FirstMatchPos(s, alts) ==
    LET hits == {i \in 1..Len(s) : \E j \in 1..Len(alts) : MatchAt(s, i, alts[j])}
    IN IF hits = {} THEN 0 ELSE CHOOSE i \in hits : \A h \in hits : i <= h

\* String.prototype.replace with a regular expression a|b (no g flag) or a
\* plain string: the leftmost match, the first alternative that matches there.
ReplaceFirst(s, alts, repl) ==
    LET p == FirstMatchPos(s, alts) IN
    IF p = 0 THEN s
    ELSE LET j == CHOOSE a \in 1..Len(alts) :
                    /\ MatchAt(s, p, alts[a])
                    /\ \A b \in 1..(a - 1) : ~MatchAt(s, p, alts[b])
         IN SubSeq(s, 1, p - 1) \o repl \o SubSeq(s, p + Len(alts[j]), Len(s))

\* String.prototype.split on a one-character separator.
RECURSIVE Split(_, _)
Split(s, sep) ==
    LET hits == {i \in 1..Len(s) : s[i] = sep} IN
    IF hits = {} THEN <<s>>
    ELSE LET p == CHOOSE i \in hits : \A h \in hits : i <= h
         IN <<SubSeq(s, 1, p - 1)>> \o Split(SubSeq(s, p + 1, Len(s)), sep)

\* Array.prototype.filter(Boolean) on an array of strings.
RECURSIVE FilterNonEmpty(_)
FilterNonEmpty(xs) ==
    IF xs = <<>> THEN <<>>
    ELSE IF Head(xs) = <<>> THEN FilterNonEmpty(Tail(xs))
    ELSE <<Head(xs)>> \o FilterNonEmpty(Tail(xs))

-----------------------------------------------------------------------------
(* createImageSources, src/core/parsers.ts *)

Res50 == <<"5", "0", "x", "5", "0">>

Res150 == <<"1", "5", "0", "x", "1", "5", "0">>

Res500 == <<"5", "0", "0", "x", "5", "0", "0">>

HttpScheme == <<"h", "t", "t", "p", ":", "/", "/">>

HttpsScheme == <<"h", "t", "t", "p", "s", ":", "/", "/">>

IMAGE_QUALITIES == <<Res50, Res150, Res500>>

qualityRegex == <<Res150, Res50>>

\* .replace(/^http:\/\//, "https://")
ReplaceProtocol(s) ==
    IF StartsWith(s, HttpScheme)
    THEN HttpsScheme \o SubSeq(s, Len(HttpScheme) + 1, Len(s))
    ELSE s

createImageSourcesKeepsScheme(imageUrl) ==
    IF Falsy(imageUrl) THEN Return(<<>>)
    ELSE IF imageUrl.k # "string"
    THEN Throw(NativeError("TypeError", "imageUrl.replace is not a function"))
    ELSE Return([i \in 1..Len(IMAGE_QUALITIES) |->
                    [resolution |-> IMAGE_QUALITIES[i],
                     url |-> ReplaceFirst(imageUrl.s, qualityRegex,
                                          IMAGE_QUALITIES[i])]])

createImageSources(imageUrl) ==
    IF Falsy(imageUrl) THEN Return(<<>>)
    ELSE IF imageUrl.k # "string"
    THEN Throw(NativeError("TypeError", "imageUrl.replace is not a function"))
    ELSE Return([i \in 1..Len(IMAGE_QUALITIES) |->
                    [resolution |-> IMAGE_QUALITIES[i],
                     url |-> ReplaceProtocol(
                                ReplaceFirst(imageUrl.s, qualityRegex,
                                             IMAGE_QUALITIES[i]))]])

ImageParts ==
    {HttpScheme, HttpsScheme, <<"c", "/">>, Res50, Res150, Res500, <<"1">>,
     <<".", "j">>}

ImageUrls ==
    {JUndefined, JNull, JNum(0), JNum(5), JObject}
        \cup {JStr(Concat(parts)) : parts \in SeqsUpTo(ImageParts, MaxParts)}

InitImages ==
    /\ InitClient
    /\ \E imageUrl \in ImageUrls :
            leaf = [fn |-> "createImageSources", in |-> imageUrl, out |-> Pending]

CreateImageSources ==
    /\ leaf.fn = "createImageSources"
    /\ leaf.out = Pending
    /\ leaf' = [leaf EXCEPT !.out = createImageSources(leaf.in)]
    /\ UNCHANGED clientVars

NextImages == CreateImageSources

SpecImages == InitImages /\ [][NextImages]_vars

-----------------------------------------------------------------------------
(* createDownloadLinks, src/core/parsers.ts *)

Id12 == <<"_", "1", "2">>

Id48 == <<"_", "4", "8">>

Id96 == <<"_", "9", "6">>

Id160 == <<"_", "1", "6", "0">>

Id320 == <<"_", "3", "2", "0">>

AUDIO_QUALITIES ==
    <<[id |-> Id12, bitrate |-> "12kbps"],
      [id |-> Id48, bitrate |-> "48kbps"],
      [id |-> Id96, bitrate |-> "96kbps"],
      [id |-> Id160, bitrate |-> "160kbps"],
      [id |-> Id320, bitrate |-> "320kbps"]>>

\* What the cipher library (CryptoJS: Base64.parse, DES.decrypt,
\* toString(Utf8)) does with an encrypted value: it throws (not a string,
\* malformed UTF-8) or returns the plaintext, which may be empty.
DesOutcomes(encryptedMediaUrl, plaintexts) ==
    IF encryptedMediaUrl.k # "string"
    THEN {Throw(NativeError("TypeError", "base64Str.indexOf is not a function"))}
    ELSE {Throw(NativeError("Error", "Malformed UTF-8 data"))}
            \cup {Return(t) : t \in plaintexts}

createDownloadLinksUncaught(encryptedMediaUrl, decrypted) ==
    IF Falsy(encryptedMediaUrl) THEN Return(<<>>)
    ELSE IF decrypted.k = "throw" THEN decrypted
    ELSE Return([i \in 1..Len(AUDIO_QUALITIES) |->
                    [bitrate |-> AUDIO_QUALITIES[i].bitrate,
                     url |-> ReplaceFirst(decrypted.v, <<Id96>>,
                                          AUDIO_QUALITIES[i].id)]])

\* decrypted is the outcome of the cipher library on encryptedMediaUrl.
createDownloadLinks(encryptedMediaUrl, decrypted) ==
    IF Falsy(encryptedMediaUrl) THEN Return(<<>>)
    ELSE IF decrypted.k = "throw" THEN Return(<<>>)
    ELSE IF decrypted.v = <<>> THEN Return(<<>>)
    ELSE Return([i \in 1..Len(AUDIO_QUALITIES) |->
                    [bitrate |-> AUDIO_QUALITIES[i].bitrate,
                     url |-> ReplaceFirst(decrypted.v, <<Id96>>,
                                          AUDIO_QUALITIES[i].id)]])

TemplateParts == {<<"a", "/">>, Id96, <<"_", "9">>, <<"6">>, <<".", "m">>}

Plaintexts == {Concat(parts) : parts \in SeqsUpTo(TemplateParts, MaxTemplateParts)}

\* An encrypted value is opaque: only the cipher library reads it.
EncryptedUrls ==
    {JUndefined, JNull, JStr(<<>>), JNum(5), JObject, JStr(<<"c", "t">>)}

InitDownload ==
    /\ InitClient
    /\ \E encryptedMediaUrl \in EncryptedUrls :
       \E decrypted \in DesOutcomes(encryptedMediaUrl, Plaintexts) :
            leaf = [fn |-> "createDownloadLinks",
                    in |-> [encryptedMediaUrl |-> encryptedMediaUrl,
                            decrypted |-> decrypted],
                    out |-> Pending]

CreateDownloadLinks ==
    /\ leaf.fn = "createDownloadLinks"
    /\ leaf.out = Pending
    /\ leaf' = [leaf EXCEPT !.out = createDownloadLinks(leaf.in.encryptedMediaUrl,
                                                        leaf.in.decrypted)]
    /\ UNCHANGED clientVars

NextDownload == CreateDownloadLinks

SpecDownload == InitDownload /\ [][NextDownload]_vars

-----------------------------------------------------------------------------
(* extractToken, src/core/utils.ts, and the URL parser it calls *)

Slash == "/"

HttpWord == <<"h", "t", "t", "p">>

HttpColon == <<"h", "t", "t", "p", ":">>

HttpsColon == <<"h", "t", "t", "p", "s", ":">>

ShortLinkSegment == <<"s">>

SongSegment == <<"s", "o", "n", "g">>

AlbumSegment == <<"a", "l", "b", "u", "m">>

ArtistSegment == <<"a", "r", "t", "i", "s", "t">>

PlaylistSegment == <<"p", "l", "a", "y", "l", "i", "s", "t">>

FeaturedSegment == <<"f", "e", "a", "t", "u", "r", "e", "d">>

ShowSegment == <<"s", "h", "o", "w">>

RECURSIVE SkipSlashes(_)
SkipSlashes(s) == IF s # <<>> /\ Head(s) = Slash THEN SkipSlashes(Tail(s)) ELSE s

\* The URL parser on what follows the scheme of an http(s) URL, or on a
\* reference that starts with //: slashes are skipped, the host runs to the
\* next slash and must not be empty, the rest is the path.
HostAndPath(rest) ==
    LET r == SkipSlashes(rest)
        p == FirstMatchPos(r, <<<<Slash>>>>)
    IN  IF r = <<>> THEN [ok |-> FALSE, pathname |-> <<>>]
        ELSE IF p = 0 THEN [ok |-> TRUE, pathname |-> <<Slash>>]
        ELSE [ok |-> TRUE, pathname |-> SubSeq(r, p, Len(r))]

\* new URL(input): an absolute URL needs a scheme.
ParseURL(input) ==
    IF StartsWith(input, HttpsColon)
    THEN HostAndPath(SubSeq(input, Len(HttpsColon) + 1, Len(input)))
    ELSE IF StartsWith(input, HttpColon)
    THEN HostAndPath(SubSeq(input, Len(HttpColon) + 1, Len(input)))
    ELSE [ok |-> FALSE, pathname |-> <<>>]

\* new URL(input, "https://www.jiosaavn.com") for an input without a scheme.
ParseURLWithBase(input) ==
    IF StartsWith(input, <<Slash, Slash>>) THEN HostAndPath(input)
    ELSE IF StartsWith(input, <<Slash>>) THEN [ok |-> TRUE, pathname |-> input]
    ELSE [ok |-> TRUE, pathname |-> <<Slash>> \o input]

ExtractedToken(type, token) == [k |-> "token", type |-> type, token |-> token]

extractTokenKeepsShortLink(input) ==
    IF Falsy(input) \/ input.k # "string" THEN JUndefined
    ELSE Bind(IF StartsWith(input.s, HttpWord)
              THEN ParseURL(input.s) ELSE ParseURLWithBase(input.s),
         LAMBDA url :
         IF ~url.ok THEN JUndefined
         ELSE Bind(FilterNonEmpty(Split(url.pathname, Slash)),
              LAMBDA segments :
              IF Len(segments) < 2 THEN JUndefined
              ELSE LET token == segments[Len(segments)]
                       root == segments[1]
                   IN  CASE root = SongSegment -> ExtractedToken("song", token)
                         [] root = AlbumSegment -> ExtractedToken("album", token)
                         [] root = ArtistSegment -> ExtractedToken("artist", token)
                         [] root \in {PlaylistSegment, FeaturedSegment} ->
                                ExtractedToken("playlist", token)
                         [] root = ShowSegment -> ExtractedToken("show", token)
                         [] OTHER -> JUndefined))

extractToken(input) ==
    IF Falsy(input) \/ input.k # "string" THEN JUndefined
    ELSE Bind(IF StartsWith(input.s, HttpWord)
              THEN ParseURL(input.s) ELSE ParseURLWithBase(input.s),
         LAMBDA url :
         IF ~url.ok THEN JUndefined
         ELSE Bind(FilterNonEmpty(Split(url.pathname, Slash)),
              LAMBDA segments :
              IF Len(segments) < 2 THEN JUndefined
              ELSE LET token == segments[Len(segments)]
                       root == IF segments[1] = ShortLinkSegment
                               THEN segments[2] ELSE segments[1]
                   IN  IF token = <<>> THEN JUndefined
                       ELSE
                       CASE root = SongSegment -> ExtractedToken("song", token)
                         [] root = AlbumSegment -> ExtractedToken("album", token)
                         [] root = ArtistSegment -> ExtractedToken("artist", token)
                         [] root \in {PlaylistSegment, FeaturedSegment} ->
                                ExtractedToken("playlist", token)
                         [] root = ShowSegment -> ExtractedToken("show", token)
                         [] OTHER -> JUndefined))

\* The links a caller passes: a bare path, an absolute URL or a text that
\* starts with http without being a URL, and values that are not strings.
\* The first two segments of the path, which decide the type, range over an
\* empty segment, the short-link marker, the entity words and another word;
\* the segments after them over an empty segment, a slug and an entity word.
LinkWords ==
    {<<>>, ShortLinkSegment, SongSegment, AlbumSegment, ArtistSegment,
     PlaylistSegment, FeaturedSegment, ShowSegment, <<"x">>}

TailWords == {<<>>, <<"x">>, SongSegment}

LinkPaths ==
    SeqsUpTo(LinkWords, 1)
        \cup {head \o tail :
                head \in [1..2 -> LinkWords],
                tail \in SeqsUpTo(TailWords, MaxSegments - 2)}

LinkPrefixes == {<<>>, HttpsColon \o <<Slash, Slash, "h">>, HttpWord}

JoinPath(segments) ==
    Concat([i \in 1..Len(segments) |-> <<Slash>> \o segments[i]])

Links ==
    {JUndefined, JNull, JNum(5)}
        \cup {JStr(prefix \o JoinPath(segments)) :
                prefix \in LinkPrefixes,
                segments \in LinkPaths}

\* The three leaf helpers, each applied once to a value of any kind.
TokenInputs == Links \cup {JNum(0), JBool(TRUE), JObject, JStr(<<>>)}

InitToken ==
    /\ InitClient
    /\ \E input \in TokenInputs :
            leaf = [fn |-> "extractToken", in |-> input, out |-> Pending]

ExtractToken ==
    /\ leaf.fn = "extractToken"
    /\ leaf.out = Pending
    /\ leaf' = [leaf EXCEPT !.out = Return(extractToken(leaf.in))]
    /\ UNCHANGED clientVars

InitLeafHelpers == InitImages \/ InitDownload \/ InitToken

NextLeafHelpers ==
    \/ CreateImageSources
    \/ CreateDownloadLinks
    \/ ExtractToken

SpecLeafHelpers == InitLeafHelpers /\ [][NextLeafHelpers]_vars

\* toNumber, src/core/utils.ts: Number(value) when it is finite.
toNumber(value) ==
    IF Number(value).k = "number" THEN Number(value) ELSE JUndefined

MaxDigits == 3

NumberChars == {"2", "0", " ", "x"}

NumberInputs ==
    {JUndefined, JNull, JNaN, JNum(0), JNum(7), JBool(TRUE), JBool(FALSE),
     JObject, JArray(<<>>)}
        \cup {JStr(s) : s \in SeqsUpTo(NumberChars, MaxDigits)}

InitNumber ==
    /\ InitClient
    /\ \E value \in NumberInputs :
            leaf = [fn |-> "toNumber", in |-> value, out |-> Pending]

ToNumber ==
    /\ leaf.fn = "toNumber"
    /\ leaf.out = Pending
    /\ leaf' = [leaf EXCEPT !.out = toNumber(leaf.in)]
    /\ UNCHANGED clientVars

NextNumber == ToNumber

SpecNumber == InitNumber /\ [][NextNumber]_vars

(* tokenExtractors.playlist, src/utils.ts: the pattern
   /(?:jiosaavn\.com|saavn\.com)\/(?:featured|s\/playlist)\/[^/]+\/([^/?#]+)$|\/([^/?#]+)$/
   on a URL kept as the sequence of its parts: the separators "/", "?" and
   "#" and the words between them. *)

MaxPathWords == 4

Separators == {"/", "?", "#"}

HostWords == {"www.jiosaavn.com", "www.saavn.com", "example.com"}

\* (?:jiosaavn\.com|saavn\.com) matches the end of the word before a "/".
EndsWithHost(word) == word \in {"www.jiosaavn.com", "www.saavn.com"}

PathWords == {"featured", "s", "playlist", "song", "x", "t"}

UrlTails == {<<>>, <<"/">>, <<"?", "q">>}

PlaylistUrls ==
    {<<"https:", "/", "/", host>>
        \o Concat([i \in 1..Len(path) |-> <<"/", path[i]>>]) \o tail :
            host \in HostWords,
            path \in SeqsUpTo(PathWords, MaxPathWords),
            tail \in UrlTails}

\* [^/?#]+$ from position p: the words to the end, at least one, no separator.
TokenToEnd(url, p) ==
    /\ p <= Len(url)
    /\ \A i \in p..Len(url) : url[i] \notin Separators

\* The first alternative matches from position p, with its slug ending
\* before position r.
FirstAlternative(url, p, r) ==
    /\ EndsWithHost(url[p])
    /\ p + 1 <= Len(url) /\ url[p + 1] = "/"
    /\ \E q \in {p + 3, p + 5} :
        /\ q < r /\ r <= Len(url)
        /\ IF q = p + 3 THEN url[p + 2] = "featured"
           ELSE url[p + 2] = "s" /\ url[p + 3] = "/" /\ url[p + 4] = "playlist"
        /\ url[q] = "/"
        /\ q + 1 < r
        /\ \A i \in (q + 1)..(r - 1) : url[i] # "/"
        /\ url[r] = "/"
        /\ TokenToEnd(url, r + 1)

\* The second alternative, \/([^/?#]+)$, matches from position p.
SecondAlternative(url, p) == url[p] = "/" /\ TokenToEnd(url, p + 1)

\* url.match(...): the leftmost match, the first alternative before the
\* second; filtered[filtered.length - 1] is the group that took part.
tokenExtractors_playlist(url) ==
    LET starts == {p \in 1..Len(url) :
                        \/ \E r \in p..Len(url) : FirstAlternative(url, p, r)
                        \/ SecondAlternative(url, p)}
    IN  IF starts = {} THEN JUndefined
        ELSE LET p == CHOOSE x \in starts : \A y \in starts : x <= y
                 ends == {r \in p..Len(url) : FirstAlternative(url, p, r)}
             IN  IF ends # {}
                 THEN JStr(SubSeq(url, (CHOOSE r \in ends : TRUE) + 1, Len(url)))
                 ELSE JStr(SubSeq(url, p + 1, Len(url)))

InitPlaylistToken ==
    /\ InitClient
    /\ \E url \in PlaylistUrls :
            leaf = [fn |-> "tokenExtractors.playlist", in |-> url, out |-> Pending]

PlaylistToken ==
    /\ leaf.fn = "tokenExtractors.playlist"
    /\ leaf.out = Pending
    /\ leaf' = [leaf EXCEPT !.out = tokenExtractors_playlist(leaf.in)]
    /\ UNCHANGED clientVars

NextPlaylistToken == PlaylistToken

SpecPlaylistToken == InitPlaylistToken /\ [][NextPlaylistToken]_vars

-----------------------------------------------------------------------------
(* Errors, src/core/errors.ts *)

NETWORK_ERROR == "NETWORK_ERROR"

API_ERROR == "API_ERROR"

VALIDATION_ERROR == "VALIDATION_ERROR"

NOT_FOUND == "NOT_FOUND"

DEPRECATED_METHOD_ERROR == "DEPRECATED_METHOD_ERROR"

UNKNOWN_ERROR == "UNKNOWN_ERROR"

ErrorCode ==
    {NETWORK_ERROR, API_ERROR, VALIDATION_ERROR, NOT_FOUND,
     DEPRECATED_METHOD_ERROR, UNKNOWN_ERROR}

\* new JioSaavnError(message, code, options): options?.originalError,
\* options?.statusCode and options?.context are copied as they are.
JioSaavnError(name, message, code, options) ==
    [k |-> "JioSaavnError", name |-> name, message |-> message, code |-> code,
     originalError |-> OptGet(options, "originalError"),
     statusCode |-> OptGet(options, "statusCode"),
     context |-> OptGet(options, "context")]

ValidationError(message, context) ==
    JioSaavnError("ValidationError", message, VALIDATION_ERROR,
                  JObj([context |-> context]))

NotFoundError(message, code) ==
    JioSaavnError("NotFoundError", message, code, JUndefined)

\* error instanceof JioSaavnError: the subclasses are instances too.
IsJioSaavnError(error) == error.k = "JioSaavnError"

\* The callers of the model pass no context.
createValidationError(message) == ValidationError(message, JUndefined)

\* The context parameter is not passed on.
createNotFoundError(message, code) == NotFoundError(message, code)

\* The text of a character sequence.
RECURSIVE TextOf(_)
TextOf(s) == IF s = <<>> THEN "" ELSE Head(s) \o TextOf(Tail(s))

\* String(value) and `${value}`; the text of an object or an array is not
\* modelled further.
ToText(v) ==
    CASE v.k = "text" -> v.t
      [] v.k = "string" -> TextOf(v.s)
      [] v.k = "number" -> ToString(v.n)
      [] v.k = "boolean" -> IF v.b THEN "true" ELSE "false"
      [] v.k \in {"undefined", "null", "NaN"} -> v.k
      [] OTHER -> "[object]"

RECURSIVE JoinTexts(_, _)
JoinTexts(texts, sep) ==
    IF texts = <<>> THEN ""
    ELSE IF Len(texts) = 1 THEN texts[1]
    ELSE texts[1] \o sep \o JoinTexts(Tail(texts), sep)

RECURSIVE Ascending(_)
Ascending(S) ==
    IF S = {} THEN <<>>
    ELSE LET m == CHOOSE x \in S : \A y \in S : x <= y
         IN <<m>> \o Ascending(S \ {m})

RECURSIVE Enumerated(_)
Enumerated(S) ==
    IF S = {} THEN <<>>
    ELSE LET m == CHOOSE x \in S : TRUE IN <<m>> \o Enumerated(S \ {m})

\* An object whose serialization fails (it refers to itself, or holds a
\* BigInt): typeof "object", truthy, no message.
JCyclic == [k |-> "cyclic"]

\* JSON.stringify(value) for a value that serializes: a property without a
\* JSON value is left out, an array element without one is null.
HasJson(v) == v.k \notin {"undefined"}

RECURSIVE JSONstringify(_)
JSONstringify(v) ==
    CASE v.k = "text" -> "\"" \o v.t \o "\""
      [] v.k = "string" -> "\"" \o TextOf(v.s) \o "\""
      [] v.k = "number" -> ToString(v.n)
      [] v.k = "boolean" -> IF v.b THEN "true" ELSE "false"
      [] v.k \in {"undefined", "null", "NaN"} -> "null"
      [] v.k = "array" ->
            "[" \o JoinTexts([i \in 1..Len(v.items) |->
                                JSONstringify(v.items[i])], ",") \o "]"
      [] v.k = "object" ->
            LET keys == Enumerated({x \in DOMAIN v.f : HasJson(v.f[x])})
            IN  "{" \o JoinTexts([i \in 1..Len(keys) |->
                                    "\"" \o keys[i] \o "\":"
                                        \o JSONstringify(v.f[keys[i]])], ",")
                    \o "}"
      [] OTHER -> "{}"

\* normalizeError(error).message; normalizeError(error).originalError is
\* error in every branch.
normalizeError(error) ==
    IF TypeOf(error) = "string" THEN ToText(error)
    ELSE IF error.k \in {"Error", "JioSaavnError"} THEN error.message
    ELSE IF error.k = "object" /\ TypeOf(Get(error, "message")) = "string"
    THEN ToText(Get(error, "message"))
    ELSE IF error.k = "cyclic" THEN "Unknown error object (failed to serialize)"
    ELSE IF TypeOf(error) = "object" /\ error.k # "null" THEN JSONstringify(error)
    ELSE IF Falsy(error) THEN "Unknown error"
    ELSE ToText(error)

\* { ...a, ...b }: null and undefined spread to nothing.
OwnFields(v) == IF v.k = "object" THEN v.f ELSE <<>>

Spread(a, b) == JObj(OwnFields(b) @@ OwnFields(a))

\* a || b
Or(a, b) == IF Falsy(a) THEN b ELSE a

\* new JioSaavnError(error.message, code, { originalError:
\* error.originalError || error, statusCode: error.statusCode, context:
\* { ...error.context, ...context } })
Retagged(error, code, context) ==
    JioSaavnError("JioSaavnError", error.message, code,
                  JObj([originalError |-> Or(error.originalError, error),
                        statusCode |-> error.statusCode,
                        context |-> Spread(error.context, context)]))

\* The callers of the model pass no context.
createError(error, code) ==
    IF IsJioSaavnError(error) THEN Retagged(error, code, JUndefined)
    ELSE JioSaavnError("JioSaavnError", normalizeError(error), code,
                       JObj([originalError |-> error, context |-> JUndefined]))

\* wrapError returning a structured error as it is, whatever the code asked.
wrapErrorKeepsCode(error, code, context) ==
    IF IsJioSaavnError(error) THEN error
    ELSE JioSaavnError("JioSaavnError", normalizeError(error), code,
                       JObj([originalError |-> error, context |-> context]))

\* The branches for NotFoundError and ValidationError come after the test
\* for JioSaavnError, their base class, and are never taken.
wrapError(error, code, context) ==
    IF IsJioSaavnError(error)
    THEN IF error.code = code /\ Falsy(context) THEN error
         ELSE Retagged(error, code, context)
    ELSE JioSaavnError("JioSaavnError", normalizeError(error), code,
                       JObj([originalError |-> error, context |-> context]))

\* The values a catch block can receive, and the structured errors among
\* them with or without a cause, a status code and a context.
ErrorMessages == {"m", ""}

Causes ==
    {JUndefined, JNull, JText(""), JText("cause"),
     NativeError("TypeError", "fetch failed")}

StatusCodes == {JUndefined, JNum(404)}

ErrorContexts ==
    {JUndefined, JObj([op |-> JText("search")]),
     JObj([op |-> JText("search"), id |-> JNum(1)])}

GivenContexts ==
    {JUndefined, JObject, JObj([op |-> JText("wrap")]), JObj([url |-> JText("u")])}

StructuredErrors ==
    {JioSaavnError(name, message, code,
                   JObj([originalError |-> cause, statusCode |-> status,
                         context |-> context])) :
        name \in {"JioSaavnError", "ValidationError"},
        message \in ErrorMessages,
        code \in {API_ERROR, VALIDATION_ERROR},
        cause \in Causes, status \in StatusCodes, context \in ErrorContexts}
        \cup {NotFoundError("gone", code) : code \in ErrorCode}

PlainErrors ==
    {JText("boom"), JText(""), JStr(<<"b">>),
     NativeError("TypeError", "fetch failed"), NativeError("Error", ""),
     JObj([message |-> JText("m")]), JObj([message |-> JNum(5)]),
     JObj([reason |-> JText("r")]), JObject,
     JArray(<<JNum(1), JUndefined>>), JCyclic,
     JUndefined, JNull, JNaN, JNum(0), JNum(7), JBool(FALSE), JBool(TRUE)}

InitErrors ==
    /\ InitClient
    /\ \E error \in StructuredErrors \cup PlainErrors :
       \E code \in ErrorCode :
       \E context \in GivenContexts :
            leaf = [fn |-> "wrapError",
                    in |-> [error |-> error, code |-> code, context |-> context],
                    out |-> Pending]

WrapError ==
    /\ leaf.fn = "wrapError"
    /\ leaf.out = Pending
    /\ leaf' = [leaf EXCEPT !.out = wrapError(leaf.in.error, leaf.in.code,
                                              leaf.in.context)]
    /\ UNCHANGED clientVars

NextErrors == WrapError

SpecErrors == InitErrors /\ [][NextErrors]_vars

-----------------------------------------------------------------------------
(* Validators: the validators module the client imports *)

isObject(value) == value.k = "object"

RECURSIVE normalizeResponse(_)
normalizeResponse(obj) ==
    IF ~isObject(obj) THEN obj
    ELSE JObj([key \in {x \in DOMAIN obj.f : obj.f[x] # JUndefined} |->
                LET value == obj.f[key] IN
                IF value.k = "array"
                THEN JArray([i \in 1..Len(value.items) |->
                                IF isObject(value.items[i])
                                THEN normalizeResponse(value.items[i])
                                ELSE value.items[i]])
                ELSE IF isObject(value) THEN normalizeResponse(value)
                ELSE value])

cleanString(value) ==
    IF value.k = "string"
    THEN IF Trim(value.s) = <<>> THEN JUndefined ELSE JStr(Trim(value.s))
    ELSE IF value.k = "text" /\ value.t # "" THEN value
    ELSE JUndefined

safeString(value) == Coalesce(cleanString(value), JStr(<<>>))

\* Array.prototype.map with a mapper that may throw: the first throw ends it.
MapItems(items, mapper(_)) ==
    LET outs == [i \in 1..Len(items) |-> mapper(items[i])]
        thrown == {i \in 1..Len(items) : outs[i].k = "throw"}
    IN  IF thrown = {}
        THEN Return([i \in 1..Len(items) |-> outs[i].v])
        ELSE outs[CHOOSE i \in thrown : \A j \in thrown : i <= j]

safeArrayMap(value, mapper(_)) ==
    IF value.k = "array" THEN MapItems(value.items, mapper) ELSE Return(<<>>)

extractField(obj, keys) ==
    IF ~isObject(obj) THEN JUndefined
    ELSE LET defined == {i \in 1..Len(keys) : Get(obj, keys[i]) # JUndefined}
         IN  IF defined = {} THEN JUndefined
             ELSE Get(obj, keys[CHOOSE i \in defined : \A j \in defined : i <= j])

\* typeof entity?.id === "string" && entity.id.length > 0 && the same of
\* the title (the name for an artist).
NonEmptyString(v) == v.k = "string" /\ v.s # <<>>

isValidSong(song) ==
    NonEmptyString(OptGet(song, "id")) /\ NonEmptyString(Get(song, "title"))

isValidAlbum(album) ==
    NonEmptyString(OptGet(album, "id")) /\ NonEmptyString(Get(album, "title"))

isValidArtist(artist) ==
    NonEmptyString(OptGet(artist, "id")) /\ NonEmptyString(Get(artist, "name"))

isValidPlaylist(playlist) ==
    NonEmptyString(OptGet(playlist, "id"))
        /\ NonEmptyString(Get(playlist, "title"))

-----------------------------------------------------------------------------
(* The transport: fetchFromSaavn *)

\* What the fetch implementation does with a request: it rejects, or it
\* resolves with a response whose json() rejects or yields the decoded body.
Rejected(error) == [k |-> "rejected", error |-> error]

Responded(status, body) == [k |-> "responded", status |-> status, body |-> body]

ResponseOk(status) == status \in 200..299

FetchResponse(data, ok, status) == [data |-> data, ok |-> ok, status |-> status]

\* url.searchParams: a parameter that is null or undefined is not sent.
SearchParams(params) ==
    [key \in {x \in DOMAIN params : ~IsNullish(params[x])} |-> params[key]]

Request(endpoint, params, context) ==
    [endpoint |-> endpoint, params |-> SearchParams(params), context |-> context]

\* The transport step that trusts the HTTP status alone.
fetchFromSaavnTrustsStatus(outcome) ==
    IF outcome.k = "rejected" THEN Throw(outcome.error)
    ELSE IF outcome.body.k = "throw" THEN outcome.body
    ELSE Return(FetchResponse(outcome.body.v, ResponseOk(outcome.status),
                              outcome.status))

fetchFromSaavn(outcome) ==
    IF outcome.k = "rejected" THEN Throw(outcome.error)
    ELSE IF outcome.body.k = "throw" THEN outcome.body
    ELSE LET data == outcome.body.v IN
         IF IsNullish(data)
         THEN Return(FetchResponse(JNull, FALSE, outcome.status))
         ELSE IF \/ ~Falsy(Get(data, "error"))
                 \/ Get(data, "status") = JText("failure")
                 \/ Get(data, "status") = JText("error")
         THEN Return(FetchResponse(data, FALSE, outcome.status))
         ELSE Return(FetchResponse(data, ResponseOk(outcome.status),
                                   outcome.status))

-----------------------------------------------------------------------------
(* JioSaavnClient, src/core/client.ts *)

Fulfilled(value) == [settled |-> "fulfilled", value |-> value]

RejectedWith(reason) == [settled |-> "rejected", reason |-> reason]

success(data) == [success |-> TRUE, data |-> normalizeResponse(data)]

failure(error, code) ==
    [success |-> FALSE, message |-> wrapError(error, code, JUndefined).message, code |-> code]

handleResponse(response) ==
    IF ~response.ok
    THEN IF IsNullish(response.data)
         THEN Throw(createValidationError("API returned null or undefined data"))
         ELSE LET errorData == response.data
                  error == Get(errorData, "error")
                  msg == Get(errorData, "msg")
              IN  IF ~Falsy(error)
                  THEN Throw(createError(
                          IF ~Falsy(Get(error, "message"))
                          THEN Get(error, "message") ELSE error,
                          API_ERROR))
                  ELSE IF Get(errorData, "status") = JText("failure") /\ ~Falsy(msg)
                  THEN Throw(createError(
                          JText("API request failed: " \o ToText(msg)), API_ERROR))
                  ELSE Throw(createError(
                          JText("API request failed with unknown error (status: "
                                    \o ToString(response.status) \o ")"),
                          API_ERROR))
    ELSE Return(response.data)

-----------------------------------------------------------------------------
(* Parsers, src/core/parsers.ts.  Of each entity the model keeps the
   identifying fields (id, type, title or name), the images and the nested
   lists. *)

\* The image sources as a value of the result.
ImageSources(sources) ==
    JArray([i \in 1..Len(sources) |->
                JObj([resolution |-> JStr(sources[i].resolution),
                      url |-> JStr(sources[i].url)])])

CannotReadProperty(value, key) ==
    NativeError("TypeError",
        "Cannot read properties of " \o value.k \o " (reading '" \o key \o "')")

parseSongPreview(song) ==
    IF IsNullish(song) THEN Throw(CannotReadProperty(song, "id"))
    ELSE Then(createImageSources(Get(song, "image")), LAMBDA images :
              Return(JObj([id |-> safeString(Get(song, "id")),
                           type |-> JText("songPreview"),
                           title |-> safeString(Get(song, "title")),
                           images |-> ImageSources(images)])))

parseAlbumPreview(album) ==
    IF IsNullish(album) THEN Throw(CannotReadProperty(album, "id"))
    ELSE Return(JObj([id |-> safeString(Get(album, "id")),
                      type |-> JText("albumPreview"),
                      title |-> safeString(Get(album, "title")),
                      images |-> ImageSources(
                          createImageSources(safeString(Get(album, "image"))).v)]))

parseArtistPreview(artist) ==
    IF IsNullish(artist) THEN Throw(CannotReadProperty(artist, "id"))
    ELSE Then(createImageSources(Get(artist, "image")), LAMBDA images :
              Return(JObj([id |-> safeString(Get(artist, "id")),
                           type |-> JText("artistPreview"),
                           name |-> safeString(
                                      extractField(artist, <<"title", "name">>)),
                           images |-> ImageSources(images)])))

parsePlaylistPreview(playlist) ==
    IF IsNullish(playlist) THEN Throw(CannotReadProperty(playlist, "id"))
    ELSE Return(JObj([id |-> safeString(Get(playlist, "id")),
                      type |-> JText("playlistPreview"),
                      title |-> safeString(Get(playlist, "title")),
                      images |-> ImageSources(
                          createImageSources(
                              safeString(Get(playlist, "image"))).v)]))

\* parseArtistsGroup(artistMap): of the three lists the model keeps the
\* primary artists; the other two are mapped the same way.
parseArtistsGroup(artistMap) ==
    Then(safeArrayMap(OptGet(artistMap, "primary_artists"), parseArtistPreview),
    LAMBDA primary :
        Return(JObj([primary |-> JArray(primary)])))

\* Of the fields copied from more_info as they are, the model keeps label
\* and album.id.
parseSong(songData) ==
    IF ~isObject(songData)
    THEN Throw(createValidationError("Invalid song data: not an object"))
    ELSE Bind(Or(Get(songData, "more_info"), JObject), LAMBDA moreInfo :
         Then(parseArtistsGroup(Or(Get(moreInfo, "artistMap"), JObject)),
         LAMBDA artistsGroup :
              Return(JObj([id |-> safeString(Get(songData, "id")),
                           type |-> JText("song"),
                           title |-> safeString(Get(songData, "title")),
                           label |-> OptGet(moreInfo, "label"),
                           album |-> JObj([id |-> OptGet(moreInfo, "album_id")]),
                           artists |-> artistsGroup,
                           images |-> ImageSources(
                               createImageSources(
                                   safeString(Get(songData, "image"))).v)]))))

\* songs.length > 0 ? songs : undefined
NonEmptyOrUndefined(items) == IF Len(items) > 0 THEN JArray(items) ELSE JUndefined

parseAlbum(albumData) ==
    IF ~isObject(albumData)
    THEN Throw(createValidationError("Invalid album data: not an object"))
    ELSE Then(safeArrayMap(Get(albumData, "list"), parseSongPreview), LAMBDA songs :
              Return(JObj([id |-> safeString(Get(albumData, "id")),
                           type |-> JText("album"),
                           title |-> safeString(Get(albumData, "title")),
                           images |-> ImageSources(
                               createImageSources(
                                   safeString(Get(albumData, "image"))).v),
                           songs |-> NonEmptyOrUndefined(songs)])))

\* normalizeList(input, key).items, src/core/utils.ts
normalizeList(input, key) ==
    IF input.k = "array" THEN input
    ELSE IF input.k = "object" /\ Get(input, key).k = "array" THEN Get(input, key)
    ELSE JArray(<<>>)

parseArtist(artistData) ==
    IF ~isObject(artistData)
    THEN Throw(createValidationError("Invalid artist data: not an object"))
    ELSE Then(safeArrayMap(normalizeList(Get(artistData, "topSongs"), "songs"),
                           parseSongPreview),
         LAMBDA topSongs :
         Then(safeArrayMap(normalizeList(Get(artistData, "topAlbums"), "albums"),
                           parseAlbumPreview),
         LAMBDA topAlbums :
              Return(JObj([id |-> safeString(
                                    extractField(artistData, <<"artistId", "id">>)),
                           type |-> JText("artist"),
                           name |-> safeString(Get(artistData, "name")),
                           images |-> ImageSources(
                               createImageSources(
                                   safeString(Get(artistData, "image"))).v),
                           topSongs |-> JArray(topSongs),
                           topAlbums |-> JArray(topAlbums)]))))

parsePlaylist(playlistData) ==
    IF ~isObject(playlistData)
    THEN Throw(createValidationError("Invalid playlist data: not an object"))
    ELSE Then(safeArrayMap(Get(playlistData, "list"), parseSongPreview), LAMBDA songs :
              Return(JObj([id |-> safeString(Get(playlistData, "id")),
                           type |-> JText("playlist"),
                           title |-> safeString(Get(playlistData, "title")),
                           image |-> safeString(Get(playlistData, "image")),
                           songs |-> NonEmptyOrUndefined(songs)])))

-----------------------------------------------------------------------------
(* The public operations.  Each is an async function whose whole body is
   one try block: <op>Request is the code up to the first await (the
   request it issues, or what it throws), <op> the code after
   handleResponse (the data it passes to success, or what it throws). *)

Endpoints ==
    [search |-> [all |-> "autocomplete.get",
                 songs |-> "search.getResults",
                 albums |-> "search.getAlbumResults",
                 artists |-> "search.getArtistResults",
                 playlists |-> "search.getPlaylistResults"],
     songs |-> [id |-> "song.getDetails",
                link |-> "webapi.get",
                suggestions |-> "webradio.getSong",
                station |-> "webradio.createEntityStation"],
     albums |-> [id |-> "content.getAlbumDetails", link |-> "webapi.get"],
     artists |-> [id |-> "artist.getArtistPageDetails",
                  link |-> "webapi.get",
                  songs |-> "artist.getArtistMoreSong",
                  albums |-> "artist.getArtistMoreAlbum"],
     playlists |-> [id |-> "playlist.getDetails", link |-> "webapi.get"]]

DefaultContext == "web6dot0"

\* A destructuring default: it applies to undefined only.
Default(v, d) == IF v.k = "undefined" THEN d ELSE v

\* page - 1
MinusOne(page) ==
    LET x == Number(page) IN IF x.k = "number" THEN JNum(x.n - 1) ELSE JNaN

normalizeIds(ids) ==
    IF ids.k = "array"
    THEN JText(JoinTexts([i \in 1..Len(ids.items) |-> ToText(ids.items[i])], ","))
    ELSE JText(ToText(ids))

\* JSON.stringify of an array of ids.
JsonElement(v) == IF v.k = "text" THEN "\"" \o v.t \o "\"" ELSE "null"

encodeIdsToArray(ids) ==
    LET arr == IF ids.k = "array" THEN ids.items ELSE <<ids>> IN
    JText("[" \o JoinTexts([i \in 1..Len(arr) |-> JsonElement(arr[i])], ",")
              \o "]")

\* The paginated value as a value of the result.
Paginated(p) ==
    JObj([total |-> p.total, page |-> p.page, limit |-> p.limit,
          results |-> JArray(p.results)])

\* value[0]
First(value) ==
    IF value.k = "array"
    THEN IF Len(value.items) > 0 THEN value.items[1] ELSE JUndefined
    ELSE Get(value, "0")

\* Object.values: the index keys in ascending order, then the other keys.
ObjectValues(value) ==
    IF value.k = "array" THEN value.items
    ELSE LET index == {i \in 0..Cardinality(DOMAIN value.f) :
                            ToString(i) \in DOMAIN value.f}
             others == DOMAIN value.f \ {ToString(i) : i \in index}
             first == Ascending(index)
             rest == Enumerated(others)
         IN  [i \in 1..Len(first) |-> value.f[ToString(first[i])]]
                \o [i \in 1..Len(rest) |-> value.f[rest[i]]]

\* src/core/utils.ts
extractRadioSongs(payload) ==
    IF Falsy(payload) \/ TypeOf(payload) # "object" THEN JArray(<<>>)
    ELSE LET song == Get(payload, "song") IN
         IF ~Falsy(song) /\ TypeOf(song) = "object" THEN JArray(<<song>>)
         ELSE JArray(SelectSeq(
                        [i \in 1..Len(ObjectValues(payload)) |->
                            OptGet(ObjectValues(payload)[i], "song")],
                        LAMBDA s : ~Falsy(s) /\ TypeOf(s) = "object"))

searchAllRequest(options) ==
    IF IsNullish(options) THEN Throw(CannotReadProperty(options, "query"))
    ELSE Return(Request(Endpoints.search.all,
                        [query |-> Get(options, "query")], DefaultContext))

searchAll(options, data) ==
    Then(safeArrayMap(OptGet(OptGet(data, "songs"), "data"), parseSongPreview),
    LAMBDA songs :
    Then(safeArrayMap(OptGet(OptGet(data, "albums"), "data"), parseAlbumPreview),
    LAMBDA albums :
    Then(safeArrayMap(OptGet(OptGet(data, "artists"), "data"),
                      parseArtistPreview),
    LAMBDA artists :
    Then(safeArrayMap(OptGet(OptGet(data, "playlists"), "data"),
                      parsePlaylistPreview),
    LAMBDA playlists :
        Return(JObj([songs |-> JArray(songs),
                     albums |-> JArray(albums),
                     artists |-> JArray(artists),
                     playlists |-> JArray(playlists)]))))))

\* const { query, page = 1, limit = 10 } = options, and the request built
\* from it: the same in the four paginated searches.
SearchRequest(endpoint, options) ==
    IF IsNullish(options) THEN Throw(CannotReadProperty(options, "query"))
    ELSE Return(Request(endpoint,
                        [q |-> Get(options, "query"),
                         p |-> Default(Get(options, "page"), JNum(1)),
                         n |-> Default(Get(options, "limit"), JNum(10))],
                        DefaultContext))

searchSongsRequest(options) == SearchRequest(Endpoints.search.songs, options)

searchSongs(options, data) ==
    Then(safeArrayMap(OptGet(data, "results"), parseSongPreview), LAMBDA results :
        Return(Paginated(buildPaginated(results, Get(data, "total"),
                    Default(Get(options, "page"), JNum(1)),
                    Default(Get(options, "limit"), JNum(10))))))

searchAlbumsRequest(options) == SearchRequest(Endpoints.search.albums, options)

searchAlbums(options, data) ==
    Then(safeArrayMap(OptGet(data, "results"), parseAlbumPreview), LAMBDA results :
        Return(Paginated(buildPaginated(results, OptGet(data, "total"),
                    Default(Get(options, "page"), JNum(1)),
                    Default(Get(options, "limit"), JNum(10))))))

searchArtistsRequest(options) == SearchRequest(Endpoints.search.artists, options)

searchArtists(options, data) ==
    Then(safeArrayMap(OptGet(data, "results"), parseArtistPreview), LAMBDA results :
        Return(Paginated(buildPaginated(results, OptGet(data, "total"),
                    Default(Get(options, "page"), JNum(1)),
                    Default(Get(options, "limit"), JNum(10))))))

searchPlaylistsRequest(options) ==
    SearchRequest(Endpoints.search.playlists, options)

searchPlaylists(options, data) ==
    Then(safeArrayMap(OptGet(data, "results"), parsePlaylistPreview), LAMBDA results :
        Return(Paginated(buildPaginated(results, OptGet(data, "total"),
                    Default(Get(options, "page"), JNum(1)),
                    Default(Get(options, "limit"), JNum(10))))))

getSongsByIdRequest(options) ==
    IF IsNullish(options) THEN Throw(CannotReadProperty(options, "ids"))
    ELSE Return(Request(Endpoints.songs.id,
                        [pids |-> normalizeIds(Get(options, "ids"))],
                        "web6dot0"))

\* data?.songs || data
SongsList(data) ==
    IF ~Falsy(OptGet(data, "songs")) THEN OptGet(data, "songs") ELSE data

getSongsById(options, data) ==
    Then(safeArrayMap(SongsList(data), parseSong), LAMBDA songs :
        Return(JArray(songs)))

\* The get-by-link request that does not compare the type resolved.
LinkRequestAnyType(endpoint, options, type, message, more, context) ==
    IF IsNullish(options) THEN Throw(CannotReadProperty(options, "link"))
    ELSE Bind(extractToken(Get(options, "link")), LAMBDA extracted :
         IF Falsy(extracted)
         THEN Throw(createValidationError(message))
         ELSE Return(Request(endpoint,
                             [token |-> JStr(extracted.token),
                              type |-> JText(extracted.type)] @@ more,
                             context)))

\* const extractedToken = extractToken(link);
\* if (!extractedToken || extractedToken.type !== type) throw ...
LinkRequest(endpoint, options, type, message, more, context) ==
    IF IsNullish(options) THEN Throw(CannotReadProperty(options, "link"))
    ELSE Bind(extractToken(Get(options, "link")), LAMBDA extracted :
         IF Falsy(extracted) \/ extracted.type # type
         THEN Throw(createValidationError(message))
         ELSE Return(Request(endpoint,
                             [token |-> JStr(extracted.token),
                              type |-> JText(extracted.type)] @@ more,
                             context)))

getSongByLinkRequest(options) ==
    LinkRequest(Endpoints.songs.link, options, "song", "Invalid song link",
                <<>>, "web6dot0")

getSongByLink(options, data) ==
    Then(parseSong(First(SongsList(data))), LAMBDA song :
        IF ~isValidSong(song)
        THEN Throw(createNotFoundError("Song not found or invalid data",
                                       NOT_FOUND))
        ELSE Return(song))

getSongSuggestionsRequest(options) ==
    IF IsNullish(options) THEN Throw(CannotReadProperty(options, "ids"))
    ELSE Return(Request(Endpoints.songs.station,
                        [entity_id |-> encodeIdsToArray(Get(options, "ids")),
                         entity_type |-> JText("queue")],
                        "android"))

\* The second request of getSongSuggestions, for the station id read from
\* the first response.
getSongSuggestionsSongsRequest(options, station) ==
    Request(Endpoints.songs.suggestions,
            [stationid |-> station,
             k |-> Default(Get(options, "limit"), JNum(10)),
             next |-> JNum(1)],
            "android")

getSongSuggestions(options, songsData) ==
    Then(safeArrayMap(extractRadioSongs(songsData), parseSongPreview),
    LAMBDA songs :
        Return(JArray(songs)))

getAlbumByIdRequest(options) ==
    IF IsNullish(options) THEN Throw(CannotReadProperty(options, "id"))
    ELSE Return(Request(Endpoints.albums.id,
                        [albumid |-> Get(options, "id")], DefaultContext))

getAlbumById(options, data) ==
    Then(parseAlbum(data), LAMBDA album :
        IF ~isValidAlbum(album)
        THEN Throw(createNotFoundError("Album not found or invalid data",
                                       NOT_FOUND))
        ELSE Return(album))

getAlbumByLinkRequest(options) ==
    LinkRequest(Endpoints.albums.link, options, "album", "Invalid album link",
                <<>>, DefaultContext)

getAlbumByLink(options, data) ==
    Then(parseAlbum(data), LAMBDA album :
        IF ~isValidAlbum(album)
        THEN Throw(createNotFoundError("Album not found or invalid data",
                                       NOT_FOUND))
        ELSE Return(album))

getArtistByIdRequest(options) ==
    IF IsNullish(options) THEN Throw(CannotReadProperty(options, "id"))
    ELSE Return(Request(Endpoints.artists.id,
                        [artistId |-> Get(options, "id"),
                         n_song |-> Default(Get(options, "songCount"), JNum(10)),
                         n_album |-> Default(Get(options, "albumCount"), JNum(10))],
                        DefaultContext))

getArtistById(options, data) ==
    Then(parseArtist(data), LAMBDA artist :
        IF ~isValidArtist(artist)
        THEN Throw(createNotFoundError("Artist not found or invalid data",
                                       NOT_FOUND))
        ELSE Return(artist))

getArtistByLinkRequest(options) ==
    LinkRequest(Endpoints.artists.link, options, "artist", "Invalid artist link",
                IF IsNullish(options) THEN <<>>
                ELSE [n_song |-> Default(Get(options, "songCount"), JNum(10)),
                      n_album |-> Default(Get(options, "albumCount"), JNum(10))],
                DefaultContext)

getArtistByLink(options, data) ==
    Then(parseArtist(data), LAMBDA artist :
        IF ~isValidArtist(artist)
        THEN Throw(createNotFoundError("Artist not found or invalid data",
                                       NOT_FOUND))
        ELSE Return(artist))

\* const { id, page = 1, sortBy = "alphabetical", sortOrder = "asc" } = options
ArtistListRequest(endpoint, options) ==
    IF IsNullish(options) THEN Throw(CannotReadProperty(options, "id"))
    ELSE Return(Request(endpoint,
                    [artistId |-> Get(options, "id"),
                     page |-> MinusOne(Default(Get(options, "page"), JNum(1))),
                     category |-> Default(Get(options, "sortBy"),
                                          JText("alphabetical")),
                     sort_order |-> Default(Get(options, "sortOrder"),
                                            JText("asc"))],
                    DefaultContext))

getArtistSongsRequest(options) == ArtistListRequest(Endpoints.artists.songs, options)

getArtistSongs(options, data) ==
    Then(safeArrayMap(OptGet(OptGet(data, "topSongs"), "songs"), parseSongPreview),
    LAMBDA songs :
        Return(Paginated(buildPaginated(songs,
                        OptGet(OptGet(data, "topSongs"), "total"),
                        Default(Get(options, "page"), JNum(1)),
                        JNum(Len(songs))))))

getArtistAlbumsRequest(options) ==
    ArtistListRequest(Endpoints.artists.albums, options)

getArtistAlbums(options, data) ==
    Then(safeArrayMap(OptGet(OptGet(data, "topAlbums"), "albums"), parseAlbumPreview),
    LAMBDA albums :
        Return(Paginated(buildPaginated(albums,
                        OptGet(OptGet(data, "topAlbums"), "total"),
                        Default(Get(options, "page"), JNum(1)),
                        JNum(Len(albums))))))

getPlaylistByIdRequest(options) ==
    IF IsNullish(options) THEN Throw(CannotReadProperty(options, "id"))
    ELSE Return(Request(Endpoints.playlists.id,
                        [listid |-> Get(options, "id"),
                         p |-> Default(Get(options, "page"), JNum(1)),
                         n |-> Default(Get(options, "songCount"), JNum(1))],
                        DefaultContext))

getPlaylistById(options, data) ==
    Then(parsePlaylist(data), LAMBDA playlist :
        IF ~isValidPlaylist(playlist)
        THEN Throw(createNotFoundError("Playlist not found or invalid data",
                                       NOT_FOUND))
        ELSE Return(playlist))

getPlaylistByLinkRequest(options) ==
    LinkRequest(Endpoints.playlists.link, options, "playlist",
                "Invalid playlist link",
                IF IsNullish(options) THEN <<>>
                ELSE [p |-> Default(Get(options, "page"), JNum(1)),
                      n |-> Default(Get(options, "songCount"), JNum(1))],
                DefaultContext)

getPlaylistByLink(options, data) ==
    Then(parsePlaylist(data), LAMBDA playlist :
        IF ~isValidPlaylist(playlist)
        THEN Throw(createNotFoundError("Playlist not found or invalid data",
                                       NOT_FOUND))
        ELSE Return(playlist))

-----------------------------------------------------------------------------
(* What callers pass and what the transport delivers *)

SearchOps == {"searchSongs", "searchAlbums", "searchArtists", "searchPlaylists"}

ByIdOps == {"getAlbumById", "getArtistById", "getPlaylistById"}

ByLinkOps ==
    {"getSongByLink", "getAlbumByLink", "getArtistByLink", "getPlaylistByLink"}

DetailOps == {"getSongsById"} \cup ByIdOps \cup ByLinkOps

ArtistListOps == {"getArtistSongs", "getArtistAlbums"}

\* The entity a detail operation returns.
EntityOf(o) ==
    CASE o \in {"getSongsById", "getSongByLink"} -> "song"
      [] o \in {"getAlbumById", "getAlbumByLink"} -> "album"
      [] o \in {"getArtistById", "getArtistByLink"} -> "artist"
      [] o \in {"getPlaylistById", "getPlaylistByLink"} -> "playlist"

PageOptions == {JUndefined} \cup {JNum(n) : n \in 0..MaxPage}

LimitOptions == {JUndefined, JNum(MaxLimit + 1)}

\* undefined: the caller passed no options at all.
SearchAllOptions == {JUndefined, Obj([query |-> JText("arijit")])}

SearchOptions ==
    {JUndefined}
        \cup {Obj([query |-> JText("arijit"), page |-> page, limit |-> limit]) :
                page \in PageOptions, limit \in LimitOptions}

IdsOptions ==
    {JUndefined}
        \cup {Obj([ids |-> ids]) :
                ids \in {JUndefined, JText("s1"),
                         JArray(<<JText("s1"), JText("s2")>>)}}

SuggestionsOptions ==
    {JUndefined}
        \cup {Obj([ids |-> JText("s1"), limit |-> limit]) :
                limit \in {JUndefined, JNum(1), JNum(MaxResults)}}

IdOptions == {JUndefined, JObj(<<>>), Obj([id |-> JText("e1")])}

LinkOptions == {JUndefined} \cup {Obj([link |-> link]) : link \in Links}

ArtistListOptions ==
    {JUndefined} \cup {Obj([id |-> JText("e1"), page |-> page]) : page \in PageOptions}

HttpStatuses == {200, 404}

Rejections ==
    {NativeError("TypeError", "fetch failed"),
     NativeError("AbortError", "This operation was aborted"),
     JText("socket hang up"),
     JUndefined}

MalformedJson == Throw(NativeError("SyntaxError", "Unexpected token < in JSON"))

\* Bodies that are no payload: null, a primitive, an empty object, the
\* error envelopes.
Envelopes ==
    {JNull, JNum(5), JObj(<<>>),
     Obj([error |-> JText("Session expired")]),
     Obj([error |-> Obj([message |-> JText("Rate limited")])]),
     Obj([error |-> JObj(<<>>)]),
     Obj([status |-> JText("failure"), msg |-> JText("No results")]),
     Obj([status |-> JText("failure")]),
     Obj([status |-> JText("error")])}

SampleImage == JStr(HttpScheme \o <<"c", "/">> \o Res150)

\* The raw items of a list: null, well-formed items, an item whose id and
\* title are blank, an item whose image is not a string.
RawItems ==
    {JNull,
     Obj([id |-> JStr(<<"s", "1">>), title |-> JStr(<<" ", "T">>),
          image |-> SampleImage]),
     Obj([id |-> JStr(<<" ">>), title |-> JStr(<<>>)]),
     Obj([id |-> JStr(<<"s", "3">>), title |-> JStr(<<"V">>), image |-> JNum(5)])}

\* What more_info of a song holds: a label and an album id that are null
\* or texts, a map of artists whose list holds null or an artist.
MoreInfos ==
    {JNull,
     Obj([label |-> JNull, album_id |-> JNull]),
     Obj([label |-> JText("L"), album_id |-> JText("al1")]),
     Obj([artistMap |-> Obj([primary_artists |-> JArray(<<JNull>>)])]),
     Obj([artistMap |->
            Obj([primary_artists |->
                    JArray(<<Obj([id |-> JStr(<<"a", "1">>),
                                  name |-> JStr(<<"N">>)])>>)])])}

DetailedSongs ==
    {Obj([id |-> JStr(<<"s", "4">>), title |-> JStr(<<"W">>),
          more_info |-> moreInfo]) : moreInfo \in MoreInfos}

ResultLists ==
    {JUndefined} \cup {JArray(items) : items \in SeqsUpTo(RawItems, MaxResults)}

ShortLists == {JUndefined} \cup {JArray(items) : items \in SeqsUpTo(RawItems, 1)}

Totals == {JUndefined} \cup {JNum(n) : n \in 0..MaxTotal}

RawIds == {JUndefined, JStr(<<>>), JStr(<<" ">>), JStr(<<"e", "1">>), JNum(7)}

RawTitles == {JUndefined, JStr(<<>>), JStr(<<"T">>)}

SearchAllBodies ==
    Envelopes
        \cup {Obj([songs |-> Obj([data |-> list]), albums |-> Obj([data |-> list]),
                   artists |-> Obj([data |-> list]),
                   playlists |-> Obj([data |-> list])]) : list \in ResultLists}

SearchBodies ==
    Envelopes
        \cup {Obj([results |-> list, total |-> total]) :
                list \in ResultLists, total \in Totals}

SongBodies ==
    Envelopes
        \cup {Obj([songs |-> list]) : list \in ResultLists}
        \cup (ResultLists \ {JUndefined})
        \cup (RawItems \ {JNull})
        \cup DetailedSongs

EntityBodies ==
    Envelopes
        \cup {Obj([id |-> id, title |-> title, list |-> list]) :
                id \in RawIds, title \in RawTitles, list \in ShortLists}

ArtistBodies ==
    Envelopes
        \cup {Obj([artistId |-> artistId, id |-> id, name |-> name,
                   topSongs |-> topSongs]) :
                artistId \in {JUndefined, JStr(<<"a", "1">>)},
                id \in RawIds, name \in RawTitles,
                topSongs \in ShortLists
                    \cup {Obj([songs |-> list]) : list \in ShortLists}}

ArtistSongsBodies ==
    Envelopes
        \cup {Obj([topSongs |-> Obj([songs |-> list, total |-> total])]) :
                list \in ResultLists, total \in Totals}

ArtistAlbumsBodies ==
    Envelopes
        \cup {Obj([topAlbums |-> Obj([albums |-> list, total |-> total])]) :
                list \in ResultLists, total \in Totals}

StationBodies == Envelopes \cup {Obj([stationid |-> JText("st1")])}

\* The radio payload: an object keyed "0", "1", ... whose entries hold a
\* song, beside the station id.
RECURSIVE IndexFields(_)
IndexFields(entries) ==
    IF entries = <<>> THEN ("stationid" :> JText("st1"))
    ELSE IndexFields(SubSeq(entries, 1, Len(entries) - 1))
            @@ (ToString(Len(entries) - 1) :> entries[Len(entries)])

RadioEntries == {JNull} \cup {Obj([song |-> item]) : item \in RawItems}

RadioBodies ==
    Envelopes
        \cup {Obj([song |-> item]) : item \in RawItems}
        \cup {JObj(IndexFields(entries)) :
                entries \in SeqsUpTo(RadioEntries, MaxResults)}

\* The bodies a get-by-link operation is answered with: what the same code
\* does with the other bodies shows in the get-by-id operations.
LinkSongBodies ==
    {JNull, Obj([error |-> JText("Session expired")]), JArray(<<>>)}
        \cup {Obj([songs |-> JArray(<<item>>)]) :
                item \in RawItems \cup DetailedSongs}

LinkEntityBodies ==
    {JNull, Obj([error |-> JText("Session expired")]), JNum(5)}
        \cup {Obj([id |-> id, title |-> title]) :
                id \in {JStr(<<" ">>), JStr(<<"e", "1">>)},
                title \in {JUndefined, JStr(<<"T">>)}}

LinkArtistBodies ==
    {JNull, Obj([error |-> JText("Session expired")]), JNum(5)}
        \cup {Obj([artistId |-> id, name |-> name]) :
                id \in {JStr(<<" ">>), JStr(<<"a", "1">>)},
                name \in {JUndefined, JStr(<<"T">>)}}

\* The bodies upstream answers the outstanding request of an operation with.
Bodies(o, s) ==
    CASE o = "searchAll" -> SearchAllBodies
      [] o \in SearchOps -> SearchBodies
      [] o = "getSongsById" -> SongBodies
      [] o = "getSongByLink" -> LinkSongBodies
      [] o \in {"getAlbumById", "getPlaylistById"} -> EntityBodies
      [] o \in {"getAlbumByLink", "getPlaylistByLink"} -> LinkEntityBodies
      [] o = "getArtistById" -> ArtistBodies
      [] o = "getArtistByLink" -> LinkArtistBodies
      [] o = "getArtistSongs" -> ArtistSongsBodies
      [] o = "getArtistAlbums" -> ArtistAlbumsBodies
      [] o = "getSongSuggestions" /\ s = 1 -> StationBodies
      [] o = "getSongSuggestions" /\ s = 2 -> RadioBodies

-----------------------------------------------------------------------------
(* The entity parsers on their own, src/core/parsers.ts *)

Parsers == {"parseSong", "parseAlbum", "parseArtist", "parsePlaylist"}

\* Values that are not objects: isObject is false of null and of an array.
NonObjects == {JUndefined, JNull, JNum(5), JText("x"), JArray(<<>>)}

ParserInputs(fn) ==
    NonObjects
        \cup CASE fn = "parseSong" -> (RawItems \ {JNull}) \cup DetailedSongs
               [] fn \in {"parseAlbum", "parsePlaylist"} -> EntityBodies
               [] fn = "parseArtist" -> ArtistBodies

Parse(fn, input) ==
    CASE fn = "parseSong" -> parseSong(input)
      [] fn = "parseAlbum" -> parseAlbum(input)
      [] fn = "parseArtist" -> parseArtist(input)
      [] fn = "parsePlaylist" -> parsePlaylist(input)

InitParsers ==
    /\ InitClient
    /\ \E fn \in Parsers :
       \E input \in ParserInputs(fn) :
            leaf = [fn |-> fn, in |-> input, out |-> Pending]

ParseEntity ==
    /\ leaf.fn \in Parsers
    /\ leaf.out = Pending
    /\ leaf' = [leaf EXCEPT !.out = Parse(leaf.fn, leaf.in)]
    /\ UNCHANGED clientVars

NextParsers == ParseEntity

SpecParsers == InitParsers /\ [][NextParsers]_vars

-----------------------------------------------------------------------------
(* The client as a state machine: one call, from the invocation to the
   settled promise. *)

\* try { ... return success(data) } catch (error) { return failure(error,
\* ErrorCode.API_ERROR) } without the catch: what is thrown rejects the promise.
SettleUncaught(completion) ==
    IF completion.k = "throw" THEN RejectedWith(completion.error)
    ELSE Fulfilled(success(completion.v))

\* try { ... return success(data) } catch (error) { return failure(error,
\* ErrorCode.API_ERROR) }: the promise of every public operation.
Settle(completion) ==
    IF completion.k = "throw"
    THEN Fulfilled(failure(completion.error, API_ERROR))
    ELSE Fulfilled(success(completion.v))

\* The code of the operation in flight after handleResponse.
ResultOf(o, options, data) ==
    CASE o = "searchAll" -> searchAll(options, data)
      [] o = "searchSongs" -> searchSongs(options, data)
      [] o = "searchAlbums" -> searchAlbums(options, data)
      [] o = "searchArtists" -> searchArtists(options, data)
      [] o = "searchPlaylists" -> searchPlaylists(options, data)
      [] o = "getSongsById" -> getSongsById(options, data)
      [] o = "getSongByLink" -> getSongByLink(options, data)
      [] o = "getSongSuggestions" -> getSongSuggestions(options, data)
      [] o = "getAlbumById" -> getAlbumById(options, data)
      [] o = "getAlbumByLink" -> getAlbumByLink(options, data)
      [] o = "getArtistById" -> getArtistById(options, data)
      [] o = "getArtistByLink" -> getArtistByLink(options, data)
      [] o = "getArtistSongs" -> getArtistSongs(options, data)
      [] o = "getArtistAlbums" -> getArtistAlbums(options, data)
      [] o = "getPlaylistById" -> getPlaylistById(options, data)
      [] o = "getPlaylistByLink" -> getPlaylistByLink(options, data)

NoLeaf == [fn |-> "none", in |-> JUndefined, out |-> Pending]

Init == InitClient /\ leaf = NoLeaf

\* The caller invokes operation o: the code runs to its first await, or to
\* the catch when it throws before.
Call(o, options, request) ==
    /\ pc = "idle"
    /\ op' = o
    /\ args' = options
    /\ extractedToken' =
            IF o \in ByLinkOps /\ ~IsNullish(options)
            THEN extractToken(Get(options, "link")) ELSE JUndefined
    /\ IF request.k = "throw"
       THEN /\ pc' = "done"
            /\ result' = Settle(request)
            /\ UNCHANGED <<requests, step>>
       ELSE /\ pc' = "awaiting"
            /\ requests' = <<request.v>>
            /\ step' = 1
            /\ UNCHANGED result
    /\ UNCHANGED <<stationId, upstream, leaf, concurrentVars>>

SearchAll ==
    /\ pc = "idle"
    /\ \E options \in SearchAllOptions :
            Call("searchAll", options, searchAllRequest(options))

SearchSongs ==
    /\ pc = "idle"
    /\ \E options \in SearchOptions :
            Call("searchSongs", options, searchSongsRequest(options))

SearchAlbums ==
    /\ pc = "idle"
    /\ \E options \in SearchOptions :
            Call("searchAlbums", options, searchAlbumsRequest(options))

SearchArtists ==
    /\ pc = "idle"
    /\ \E options \in SearchOptions :
            Call("searchArtists", options, searchArtistsRequest(options))

SearchPlaylists ==
    /\ pc = "idle"
    /\ \E options \in SearchOptions :
            Call("searchPlaylists", options, searchPlaylistsRequest(options))

GetSongsById ==
    /\ pc = "idle"
    /\ \E options \in IdsOptions :
            Call("getSongsById", options, getSongsByIdRequest(options))

GetSongByLink ==
    /\ pc = "idle"
    /\ \E options \in LinkOptions :
            Call("getSongByLink", options, getSongByLinkRequest(options))

GetSongSuggestions ==
    /\ pc = "idle"
    /\ \E options \in SuggestionsOptions :
            Call("getSongSuggestions", options, getSongSuggestionsRequest(options))

GetAlbumById ==
    /\ pc = "idle"
    /\ \E options \in IdOptions :
            Call("getAlbumById", options, getAlbumByIdRequest(options))

GetAlbumByLink ==
    /\ pc = "idle"
    /\ \E options \in LinkOptions :
            Call("getAlbumByLink", options, getAlbumByLinkRequest(options))

GetArtistById ==
    /\ pc = "idle"
    /\ \E options \in IdOptions :
            Call("getArtistById", options, getArtistByIdRequest(options))

GetArtistByLink ==
    /\ pc = "idle"
    /\ \E options \in LinkOptions :
            Call("getArtistByLink", options, getArtistByLinkRequest(options))

GetArtistSongs ==
    /\ pc = "idle"
    /\ \E options \in ArtistListOptions :
            Call("getArtistSongs", options, getArtistSongsRequest(options))

GetArtistAlbums ==
    /\ pc = "idle"
    /\ \E options \in ArtistListOptions :
            Call("getArtistAlbums", options, getArtistAlbumsRequest(options))

GetPlaylistById ==
    /\ pc = "idle"
    /\ \E options \in IdOptions :
            Call("getPlaylistById", options, getPlaylistByIdRequest(options))

GetPlaylistByLink ==
    /\ pc = "idle"
    /\ \E options \in LinkOptions :
            Call("getPlaylistByLink", options, getPlaylistByLinkRequest(options))

\* The awaited request settles with outcome: fetchFromSaavn and
\* handleResponse run, then the rest of the operation, to its next await
\* (the second request of getSongSuggestions) or to its return.
\* const response = await this.request(...);
\* const data = this.handleResponse(response);
Handled(outcome) ==
    Then(fetchFromSaavn(outcome), LAMBDA response : handleResponse(response))

\* The continuation that sends the request once more after its first
\* failure.
ResumeRetrying(handled) ==
    IF handled.k = "throw" /\ Len(upstream) < step
    THEN /\ requests' = Append(requests, requests[Len(requests)])
         /\ UNCHANGED <<pc, result, stationId, step>>
    ELSE IF handled.k = "return" /\ op = "getSongSuggestions" /\ step = 1
    THEN /\ stationId' = OptGet(handled.v, "stationid")
         /\ requests' =
                 Append(requests,
                        getSongSuggestionsSongsRequest(
                            args, OptGet(handled.v, "stationid")))
         /\ step' = 2
         /\ UNCHANGED <<pc, result>>
    ELSE /\ result' = Settle(IF handled.k = "throw" THEN handled
                             ELSE ResultOf(op, args, handled.v))
         /\ pc' = "done"
         /\ UNCHANGED <<stationId, requests, step>>

\* The code after handleResponse: getSongSuggestions issues its second
\* request after the first response, every other continuation runs to the
\* end of the operation.
Resume(handled) ==
    IF handled.k = "return" /\ op = "getSongSuggestions" /\ step = 1
    THEN /\ stationId' = OptGet(handled.v, "stationid")
         /\ requests' =
                 Append(requests,
                        getSongSuggestionsSongsRequest(
                            args, OptGet(handled.v, "stationid")))
         /\ step' = 2
         /\ UNCHANGED <<pc, result>>
    ELSE /\ result' = Settle(IF handled.k = "throw" THEN handled
                             ELSE ResultOf(op, args, handled.v))
         /\ pc' = "done"
         /\ UNCHANGED <<stationId, requests, step>>

\* The awaited fetch settles with outcome and the operation runs on, to its
\* next await or to its end.
Deliver(outcome) ==
    /\ pc = "awaiting"
    /\ upstream' = Append(upstream, outcome)
    /\ Resume(Handled(outcome))
    /\ UNCHANGED <<op, args, extractedToken, leaf, concurrentVars>>

FetchRejects == \E error \in Rejections : Deliver(Rejected(error))

FetchResolves ==
    /\ pc = "awaiting"
    /\ \E status \in HttpStatuses :
       \E body \in {MalformedJson} \cup {Return(b) : b \in Bodies(op, step)} :
            Deliver(Responded(status, body))

Next ==
    \/ SearchAll
    \/ SearchSongs
    \/ SearchAlbums
    \/ SearchArtists
    \/ SearchPlaylists
    \/ GetSongsById
    \/ GetSongByLink
    \/ GetSongSuggestions
    \/ GetAlbumById
    \/ GetAlbumByLink
    \/ GetArtistById
    \/ GetArtistByLink
    \/ GetArtistSongs
    \/ GetArtistAlbums
    \/ GetPlaylistById
    \/ GetPlaylistByLink
    \/ FetchRejects
    \/ FetchResolves

Spec == Init /\ [][Next]_vars

-----------------------------------------------------------------------------
(* Calls in flight at the same time, src/core/client.ts and the module
   functions of the package entry: client instances with their configuration,
   the default client the module functions call, and for every call the
   requests it issued, the abort signal of the request outstanding, the
   outcomes it received and its result. *)

BASE_URL == JText("https://www.jiosaavn.com/api.php")

\* fetchImpl = fetch: the transport of the platform.
GlobalFetch == JText("fetch")

\* A configuration that sets every option, and a partial configuration whose
\* options are present and undefined.
ProxyConfig ==
    JObj([baseUrl |-> JText("https://proxy.example/api.php"),
          fetch |-> JText("proxyFetch"),
          timeoutMs |-> JNum(5000)])

ResetConfig ==
    JObj([baseUrl |-> JUndefined, fetch |-> JUndefined, timeoutMs |-> JUndefined])

ClientConfigs == {JObject, ProxyConfig}

PartialConfigs == {ProxyConfig, ResetConfig}

\* this.config = { ...this.config, ...config }
updateConfig(current, partial) == Spread(current, partial)

\* JioSaavnClient.request: the options of the instance, read when the
\* request is made, and the defaults of fetchFromSaavn's parameters.
request(clientConfig, params) ==
    [endpoint |-> params.endpoint,
     params |-> params.params,
     context |-> params.context,
     baseUrl |-> Default(Get(clientConfig, "baseUrl"), BASE_URL),
     fetchImpl |-> Default(Get(clientConfig, "fetch"), GlobalFetch),
     timeoutMs |-> Get(clientConfig, "timeoutMs")]

\* const controller = timeoutMs ? new AbortController() : undefined, and the
\* timer that aborts it: the signal handed to the transport.
SignalOf(sent) == IF Falsy(sent.timeoutMs) THEN "none" ELSE "armed"

\* const timeout = timeoutMs ? setTimeout(...) : undefined
TimerOf(sent) == IF Falsy(sent.timeoutMs) THEN "none" ELSE "pending"

\* if (timeout) clearTimeout(timeout), reached when fetchImpl resolved; a
\* rejection leaves the function before it.
TimersAfter(timers, outcome) ==
    IF outcome.k = "responded" /\ timers[Len(timers)] = "pending"
    THEN [timers EXCEPT ![Len(timers)] = "cleared"]
    ELSE timers

AbortError == NativeError("AbortError", "This operation was aborted")

ConcurrentOps == {"searchSongs", "getSongSuggestions"}

ConcurrentOptions(o) ==
    IF o = "searchSongs" THEN Obj([query |-> JText("arijit")])
    ELSE Obj([ids |-> JText("s1")])

FirstRequest(o) ==
    IF o = "searchSongs" THEN searchSongsRequest(ConcurrentOptions(o))
    ELSE getSongSuggestionsRequest(ConcurrentOptions(o))

ErrorEnvelope == Obj([error |-> JText("Session expired")])

Payload(o, s) ==
    IF o = "searchSongs" THEN Obj([results |-> JArray(<<>>), total |-> JNum(0)])
    ELSE IF s = 1 THEN Obj([stationid |-> JText("st1")])
    ELSE JObj(IndexFields(<<>>))

\* What the transport answers a request of operation o at step s with.
Responses(o, s) ==
    {Responded(200, Return(Payload(o, s))),
     Responded(200, Return(ErrorEnvelope)),
     Responded(404, Return(Payload(o, s)))}

\* A caller invokes an operation on a client instance: the code runs to its
\* first await.
Invoke(c) ==
    /\ calls[c].pc = "idle"
    /\ \E o \in ConcurrentOps, i \in DOMAIN config :
            calls' = [calls EXCEPT ![c] =
                        [pc |-> "awaiting", op |-> o, client |-> i, step |-> 1,
                         requests |-> <<request(config[i], FirstRequest(o).v)>>,
                         signal |-> SignalOf(request(config[i], FirstRequest(o).v)),
                         timers |-> <<TimerOf(request(config[i], FirstRequest(o).v))>>,
                         received |-> <<>>,
                         result |-> Pending]]
    /\ UNCHANGED <<config, defaultClient, singleCallVars>>

\* The continuation that does not look at the station response before it
\* asks for the suggestions.
ContinueUnchecked(c, outcome, handled) ==
    IF calls[c].op = "getSongSuggestions" /\ calls[c].step = 1
    THEN Bind(request(config[calls[c].client],
                      getSongSuggestionsSongsRequest(
                          ConcurrentOptions(calls[c].op),
                          IF handled.k = "return"
                          THEN OptGet(handled.v, "stationid") ELSE JUndefined)),
         LAMBDA sent :
            [calls[c] EXCEPT !.step = 2,
                             !.requests = Append(@, sent),
                             !.signal = SignalOf(sent),
                             !.timers = Append(TimersAfter(@, outcome), TimerOf(sent)),
                             !.received = Append(@, outcome)])
    ELSE [calls[c] EXCEPT
            !.pc = "done",
            !.signal = "none",
            !.timers = TimersAfter(@, outcome),
            !.received = Append(@, outcome),
            !.result = Settle(IF handled.k = "throw" THEN handled
                              ELSE ResultOf(calls[c].op,
                                            ConcurrentOptions(calls[c].op),
                                            handled.v))]

\* The code of call c after its awaited request settled with outcome.
Continue(c, outcome, handled) ==
    IF handled.k = "return" /\ calls[c].op = "getSongSuggestions"
        /\ calls[c].step = 1
    THEN Bind(request(config[calls[c].client],
                      getSongSuggestionsSongsRequest(
                          ConcurrentOptions(calls[c].op),
                          OptGet(handled.v, "stationid"))),
         LAMBDA sent :
            [calls[c] EXCEPT !.step = 2,
                             !.requests = Append(@, sent),
                             !.signal = SignalOf(sent),
                             !.timers = Append(TimersAfter(@, outcome), TimerOf(sent)),
                             !.received = Append(@, outcome)])
    ELSE [calls[c] EXCEPT
            !.pc = "done",
            !.signal = "none",
            !.timers = TimersAfter(@, outcome),
            !.received = Append(@, outcome),
            !.result = Settle(IF handled.k = "throw" THEN handled
                              ELSE ResultOf(calls[c].op,
                                            ConcurrentOptions(calls[c].op),
                                            handled.v))]

Settles(c, outcome) ==
    /\ calls[c].pc = "awaiting"
    /\ calls' = [calls EXCEPT ![c] = Continue(c, outcome, Handled(outcome))]
    /\ UNCHANGED <<config, defaultClient, singleCallVars>>

\* The transport resolves the request of call c.
ResponseArrives(c) ==
    /\ calls[c].pc = "awaiting"
    /\ calls[c].signal # "aborted"
    /\ \E outcome \in Responses(calls[c].op, calls[c].step) : Settles(c, outcome)

\* The transport rejects the request of call c.
RequestFails(c) ==
    /\ calls[c].signal # "aborted"
    /\ Settles(c, Rejected(NativeError("TypeError", "fetch failed")))

\* The timer of request i of call c fires: controller.abort(), which the
\* transport hears when that request is still outstanding.
Fired(call, i) ==
    [call EXCEPT !.timers[i] = "fired",
                 !.signal = IF i = Len(call.requests) /\ call.pc = "awaiting"
                            THEN "aborted" ELSE @]

\* setTimeout(() => controller?.abort(), timeoutMs) of the shared-controller
\* variant: one controller for every request outstanding.
TimeoutFiresShared(c) ==
    /\ \E i \in DOMAIN calls[c].timers :
        /\ calls[c].timers[i] = "pending"
        /\ calls' = [d \in Calls |->
                        IF d = c THEN Fired(calls[c], i)
                        ELSE IF calls[d].signal = "armed"
                        THEN [calls[d] EXCEPT !.signal = "aborted"]
                        ELSE calls[d]]
    /\ UNCHANGED <<config, defaultClient, singleCallVars>>

\* setTimeout(() => controller?.abort(), timeoutMs): the deadline of a
\* request of call c expires.
TimeoutFires(c) ==
    /\ \E i \in DOMAIN calls[c].timers :
        /\ calls[c].timers[i] = "pending"
        /\ calls' = [calls EXCEPT ![c] = Fired(calls[c], i)]
    /\ UNCHANGED <<config, defaultClient, singleCallVars>>

\* The transport rejects the aborted request of call c.
AbortRejects(c) ==
    /\ calls[c].signal = "aborted"
    /\ Settles(c, Rejected(AbortError))

\* client.updateConfig(partial) on a client instance.
UpdateConfig ==
    /\ \E i \in DOMAIN config, partial \in PartialConfigs :
            config' = [config EXCEPT ![i] = updateConfig(@, partial)]
    /\ UNCHANGED <<defaultClient, calls, singleCallVars>>

\* createClient(config): defaultClient = new JioSaavnClient(config).
CreateClient ==
    /\ Len(config) < MaxClients
    /\ \E clientConfig \in ClientConfigs :
            config' = Append(config, JioSaavnClient(clientConfig))
    /\ defaultClient' = Len(config) + 1
    /\ UNCHANGED <<calls, singleCallVars>>

NextConcurrent ==
    \/ \E c \in Calls : Invoke(c)
    \/ \E c \in Calls : ResponseArrives(c)
    \/ \E c \in Calls : RequestFails(c)
    \/ \E c \in Calls : TimeoutFires(c)
    \/ \E c \in Calls : AbortRejects(c)
    \/ UpdateConfig
    \/ CreateClient

SpecConcurrent == Init /\ [][NextConcurrent]_vars

-----------------------------------------------------------------------------
(* retry, src/core/utils.ts: the loop of attempts as a state machine.  The
   call is kept in leaf: the options given, the attempt counter, the last
   error caught, and the events so far (every invocation of fn with its
   outcome, every backoff wait with its delay). *)

MaxRetries == 3

DefaultRetries == 3

DefaultBaseDelayMs == 1000

RetryOptions ==
    {JUndefined, JObject}
        \cup {Obj([retries |-> JNum(n)]) : n \in -1..MaxRetries}
        \cup {Obj([retries |-> JNum(n), baseDelayMs |-> JNum(250)]) :
                n \in 0..MaxRetries}

\* const retries = options?.retries ?? 3
RetriesOf(options) == Coalesce(OptGet(options, "retries"), JNum(DefaultRetries)).n

\* const baseDelayMs = options?.baseDelayMs ?? 1000
BaseDelayOf(options) ==
    Coalesce(OptGet(options, "baseDelayMs"), JNum(DefaultBaseDelayMs)).n

\* What one invocation of fn settles with: a value, or the error of that
\* attempt.
FnOutcomes(attempt) ==
    {Return(JText("done")), Return(JUndefined),
     Throw(NativeError("Error", "attempt " \o ToString(attempt))),
     Throw(JUndefined)}

Invoked(outcome) == [e |-> "fn", outcome |-> outcome]

Delayed(ms) == [e |-> "delay", ms |-> ms]

InitRetry ==
    /\ InitClient
    /\ \E options \in RetryOptions :
            leaf = [fn |-> "retry", in |-> options, pc |-> "loop", attempt |-> 0,
                    lastError |-> JUndefined, events |-> <<>>, out |-> Pending]

\* catch (err) of the variant that waits after every failed attempt.
CaughtAlwaysDelays(call, err) ==
    [call EXCEPT !.lastError = err,
                 !.pc = "delay",
                 !.events = Append(@, Delayed(BaseDelayOf(call.in)
                                                * 2 ^ call.attempt))]

\* catch (err) { lastError = err; if (attempt < retries) await delay(...) }
Caught(call, err) ==
    IF call.attempt < RetriesOf(call.in)
    THEN [call EXCEPT !.lastError = err,
                      !.pc = "delay",
                      !.events = Append(@, Delayed(BaseDelayOf(call.in)
                                                     * 2 ^ call.attempt))]
    ELSE [call EXCEPT !.lastError = err,
                      !.pc = "loop",
                      !.attempt = @ + 1]

\* attempt <= retries: return await fn() is entered.
RetryInvokes ==
    /\ leaf.fn = "retry"
    /\ leaf.pc = "loop"
    /\ leaf.attempt <= RetriesOf(leaf.in)
    /\ leaf' = [leaf EXCEPT !.pc = "fn"]
    /\ UNCHANGED clientVars

\* fn() settles: its value is returned, or its error is caught.
FnSettles ==
    /\ leaf.fn = "retry"
    /\ leaf.pc = "fn"
    /\ \E outcome \in FnOutcomes(leaf.attempt) :
            leaf' =
                IF outcome.k = "return"
                THEN [leaf EXCEPT !.pc = "done",
                                  !.events = Append(@, Invoked(outcome)),
                                  !.out = outcome]
                ELSE Caught([leaf EXCEPT !.events = Append(@, Invoked(outcome))],
                            outcome.error)
    /\ UNCHANGED clientVars

\* The timer of delay(...) fires: attempt++.
DelayElapses ==
    /\ leaf.fn = "retry"
    /\ leaf.pc = "delay"
    /\ leaf' = [leaf EXCEPT !.pc = "loop", !.attempt = @ + 1]
    /\ UNCHANGED clientVars

\* The loop ends: throw lastError.
RetryThrows ==
    /\ leaf.fn = "retry"
    /\ leaf.pc = "loop"
    /\ ~(leaf.attempt <= RetriesOf(leaf.in))
    /\ leaf' = [leaf EXCEPT !.pc = "done", !.out = Throw(leaf.lastError)]
    /\ UNCHANGED clientVars

NextRetry ==
    \/ RetryInvokes
    \/ FnSettles
    \/ DelayElapses
    \/ RetryThrows

SpecRetry == InitRetry /\ [][NextRetry]_vars

-----------------------------------------------------------------------------
(* retry around an operation of the client: fn is () => client.operation(
   options).  The retry call is kept in leaf as above, the operation fn
   called in the variables of the single call. *)

RetryClientOptions ==
    {JUndefined,
     Obj([retries |-> JNum(-1)]),
     Obj([retries |-> JNum(0)]),
     Obj([retries |-> JNum(1), baseDelayMs |-> JNum(250)])}

InitRetryClient ==
    /\ InitClient
    /\ \E options \in RetryClientOptions :
            leaf = [fn |-> "retry", in |-> options, pc |-> "loop", attempt |-> 0,
                    lastError |-> JUndefined, events |-> <<>>, out |-> Pending]

\* await of the variant in which an operation that failed rejects with its
\* failure.
AwaitedThrowingFailures(promise) ==
    IF promise.settled = "fulfilled" /\ promise.value.success
    THEN Return(promise.value)
    ELSE Throw(IF promise.settled = "fulfilled" THEN JText(promise.value.message)
               ELSE promise.reason)

\* return await fn() inside try: the value of a fulfilled promise is
\* returned, the reason of a rejected one is thrown to the catch.
Awaited(promise) ==
    IF promise.settled = "fulfilled"
    THEN Return(promise.value)
    ELSE Throw(promise.reason)

\* The loop of retry runs on from its start or from the end of a backoff
\* wait: the next attempt is entered, or lastError is thrown.
RetryRuns ==
    /\ leaf.fn = "retry"
    /\ (RetryInvokes \/ DelayElapses \/ RetryThrows)

\* fn() runs: it calls one operation of the client, which runs to its first
\* await or to its return.
FnCallsOperation ==
    /\ leaf.fn = "retry"
    /\ leaf.pc = "fn"
    /\ \/ SearchAll
       \/ SearchSongs
       \/ SearchAlbums
       \/ SearchArtists
       \/ SearchPlaylists
       \/ GetSongsById
       \/ GetSongByLink
       \/ GetSongSuggestions
       \/ GetAlbumById
       \/ GetAlbumByLink
       \/ GetArtistById
       \/ GetArtistByLink
       \/ GetArtistSongs
       \/ GetArtistAlbums
       \/ GetPlaylistById
       \/ GetPlaylistByLink

\* The promise of the operation has settled: retry returns its value, or
\* catches its reason, and another attempt starts with a call of its own.
OperationSettles ==
    /\ leaf.fn = "retry"
    /\ leaf.pc = "fn"
    /\ pc = "done"
    /\ IF Awaited(result).k = "return"
       THEN /\ leaf' = [leaf EXCEPT !.pc = "done",
                                    !.events = Append(@, Invoked(Awaited(result))),
                                    !.out = Awaited(result)]
            /\ UNCHANGED clientVars
       ELSE /\ leaf' = Caught([leaf EXCEPT
                                  !.events = Append(@, Invoked(Awaited(result)))],
                              Awaited(result).error)
            /\ pc' = "idle"
            /\ op' = "none"
            /\ args' = [k |-> "none"]
            /\ step' = 0
            /\ stationId' = JUndefined
            /\ requests' = <<>>
            /\ upstream' = <<>>
            /\ result' = Pending
            /\ extractedToken' = JUndefined
            /\ UNCHANGED concurrentVars

NextRetryClient ==
    \/ RetryRuns
    \/ FnCallsOperation
    \/ FetchRejects
    \/ FetchResolves
    \/ OperationSettles

SpecRetryClient == InitRetryClient /\ [][NextRetryClient]_vars

-----------------------------------------------------------------------------
(* C5: buildPaginated returns the upstream total when it is a finite
   number, and results.length when the upstream total is undefined or not a
   finite number. *)
C5_TotalFallsBackToLength ==
    (leaf.fn = "buildPaginated" /\ leaf.out # Pending) =>
        leaf.out.total =
            (IF leaf.in.total.k = "number" THEN leaf.in.total
             ELSE JNum(Len(leaf.in.results)))

(* C7: buildPaginated returns the page and the limit it was given, for
   every value of them. *)
C7_PageAndLimitPreserved ==
    (leaf.fn = "buildPaginated" /\ leaf.out # Pending) =>
        /\ leaf.out.page = leaf.in.page
        /\ leaf.out.limit = leaf.in.limit

-----------------------------------------------------------------------------
(* Statement helpers: what "the first marker replaced" means, said without
   the code's replace. *)

\* s with the occurrence of m at position p replaced by r.
Spliced(s, p, m, r) == SubSeq(s, 1, p - 1) \o r \o SubSeq(s, p + Len(m), Len(s))

\* m occurs in s at position p and no marker occurs at an earlier position.
IsFirstMarker(s, p, m, markers) ==
    /\ MatchAt(s, p, m)
    /\ \A q \in 1..(p - 1) : \A n \in markers : ~MatchAt(s, q, n)

NoMarker(s, markers) == \A p \in 1..Len(s) : \A m \in markers : ~MatchAt(s, p, m)

\* t is s with its first occurrence of a marker replaced by r, or s itself
\* when no marker occurs in s.
FirstMarkerReplaced(s, markers, r, t) ==
    \/ NoMarker(s, markers) /\ t = s
    \/ \E p \in 1..Len(s) : \E m \in markers :
            IsFirstMarker(s, p, m, markers) /\ t = Spliced(s, p, m, r)

\* t is s with a leading http:// made https://.
SchemeUpgraded(s, t) ==
    IF StartsWith(s, HttpScheme)
    THEN t = HttpsScheme \o SubSeq(s, Len(HttpScheme) + 1, Len(s))
    ELSE t = s

(* C9: createImageSources(url) returns [] for an empty or falsy URL and
   otherwise exactly three entries labelled 50x50, 150x150, 500x500 in that
   order; the URL of each entry is the base URL with the first resolution
   marker the code recognizes (150x150 or 50x50) replaced by the entry's
   resolution, and a leading http:// upgraded to https://. *)
C9_ImageSources ==
    (leaf.fn = "createImageSources" /\ leaf.out # Pending
        /\ (Falsy(leaf.in) \/ leaf.in.k = "string")) =>
        /\ leaf.out.k = "return"
        /\ Falsy(leaf.in) => leaf.out.v = <<>>
        /\ ~Falsy(leaf.in) =>
            /\ Len(leaf.out.v) = 3
            /\ <<leaf.out.v[1].resolution, leaf.out.v[2].resolution,
                 leaf.out.v[3].resolution>> = <<Res50, Res150, Res500>>
            /\ \A i \in 1..3 :
                LET r == leaf.out.v[i].resolution
                    u == leaf.out.v[i].url
                    s == leaf.in.s
                    recognized == {Res50, Res150}
                IN  \/ NoMarker(s, recognized) /\ SchemeUpgraded(s, u)
                    \/ \E p \in 1..Len(s) : \E m \in recognized :
                          /\ IsFirstMarker(s, p, m, recognized)
                          /\ SchemeUpgraded(Spliced(s, p, m, r), u)

C9_Witness ==
    /\ leaf.fn = "createImageSources"
    /\ leaf.in = JStr(HttpScheme \o <<"c", "/">> \o Res150)
    /\ leaf.out # Pending
    /\ leaf.out.k = "return"
    /\ Len(leaf.out.v) = 3
    /\ leaf.out.v[3].url = HttpsScheme \o <<"c", "/">> \o Res500

(* C10: createDownloadLinks returns [] when the encrypted URL is absent or
   when decryption fails (the cipher library throws or yields an empty
   plaintext), and otherwise exactly five links labelled 12kbps, 48kbps,
   96kbps, 160kbps, 320kbps whose URLs are the decrypted template with the
   first default-bitrate marker _96 replaced by that bitrate's marker; it
   never throws. *)
C10_DownloadLinks ==
    (leaf.fn = "createDownloadLinks" /\ leaf.out # Pending) =>
        LET enc == leaf.in.encryptedMediaUrl
            dec == leaf.in.decrypted
            failed == dec.k = "throw" \/ dec.v = <<>>
        IN  /\ leaf.out.k = "return"
            /\ (Falsy(enc) \/ failed) => leaf.out.v = <<>>
            /\ (~Falsy(enc) /\ ~failed) =>
                /\ Len(leaf.out.v) = 5
                /\ [i \in 1..5 |-> leaf.out.v[i].bitrate] =
                        <<"12kbps", "48kbps", "96kbps", "160kbps", "320kbps">>
                /\ \A i \in 1..5 :
                        FirstMarkerReplaced(dec.v, {Id96},
                            <<Id12, Id48, Id96, Id160, Id320>>[i],
                            leaf.out.v[i].url)

C10_Witness ==
    /\ leaf.fn = "createDownloadLinks"
    /\ leaf.out # Pending
    /\ leaf.in.decrypted = Return(<<"a", "/">> \o Id96 \o <<".", "m">>)
    /\ leaf.out.k = "return"
    /\ Len(leaf.out.v) = 5
    /\ leaf.out.v[5].url = <<"a", "/">> \o Id320 \o <<".", "m">>

-----------------------------------------------------------------------------
(* Statement helpers for the client: what the properties speak of, read off
   the state of a call. *)

LastOutcome == upstream[Len(upstream)]

Settled == pc = "done"

Succeeded == Settled /\ result.settled = "fulfilled" /\ result.value.success

Failed == Settled /\ result.settled = "fulfilled" /\ ~result.value.success

\* A string with at least one character.
Filled(v) == v.k = "string" /\ Len(v.s) > 0

TitleKey(o) == IF EntityOf(o) = "artist" THEN "name" ELSE "title"

\* The data upstream handed to the operation, when the response was one the
\* client accepts.
Accepted ==
    /\ upstream # <<>>
    /\ fetchFromSaavn(LastOutcome).k = "return"
    /\ handleResponse(fetchFromSaavn(LastOutcome).v).k = "return"

AcceptedData == handleResponse(fetchFromSaavn(LastOutcome).v).v

\* The entity a get-by-id or get-by-link operation normalizes from the data.
Normalized(o, data) ==
    CASE EntityOf(o) = "song" -> parseSong(First(SongsList(data)))
      [] EntityOf(o) = "album" -> parseAlbum(data)
      [] EntityOf(o) = "artist" -> parseArtist(data)
      [] EntityOf(o) = "playlist" -> parsePlaylist(data)

(* C1: whatever the caller passes and whatever the transport does, the
   promise of a public operation settles fulfilled, with {success: true,
   data} or {success: false, message, code} where message is a string and
   code an error code; it is never rejected, and it is not settled before
   the operation is done. *)
C1_AlwaysResolves ==
    /\ ~Settled => result = Pending
    /\ Settled =>
        /\ result.settled = "fulfilled"
        /\ \/ /\ result.value.success = TRUE
              /\ DOMAIN result.value = {"success", "data"}
           \/ /\ result.value.success = FALSE
              /\ DOMAIN result.value = {"success", "message", "code"}
              /\ result.value.message \in STRING
              /\ result.value.code \in ErrorCode

C1_Witness ==
    /\ Settled
    /\ upstream # <<>>
    /\ LastOutcome.k = "rejected"
    /\ result.settled = "fulfilled"
    /\ result.value.success = FALSE
    /\ result.value.message = "fetch failed"

(* C2: no success result of a detail operation carries an entity whose id
   is empty or whose title (name for an artist) is empty. *)
C2_NoInvalidEntityReturned ==
    (Succeeded /\ op \in DetailOps) =>
        LET data == result.value.data
            entities == IF data.k = "array" THEN data.items ELSE <<data>>
        IN  \A i \in 1..Len(entities) :
                /\ Filled(OptGet(entities[i], "id"))
                /\ Filled(OptGet(entities[i], TitleKey(op)))

(* C3: when the entity a get-by-id or get-by-link operation normalized
   fails the validity check (empty id, or empty title or name), the result
   is a failure whose code is NOT_FOUND. *)
C3_InvalidEntityIsNotFound ==
    (/\ Settled
     /\ op \in ByIdOps \cup ByLinkOps
     /\ Accepted
     /\ Normalized(op, AcceptedData).k = "return"
     /\ \/ ~Filled(Get(Normalized(op, AcceptedData).v, "id"))
        \/ ~Filled(Get(Normalized(op, AcceptedData).v, TitleKey(op)))) =>
        /\ Failed
        /\ result.value.code = NOT_FOUND

\* The link of a get-by-link call cannot be parsed or names another entity.
BadLink ==
    /\ op \in ByLinkOps
    /\ ~IsNullish(args)
    /\ \/ extractedToken = JUndefined
       \/ extractedToken.type # EntityOf(op)

\* Upstream answered with a body that is no success: null, an error, a
\* status of failure or error, or an HTTP status that is no success.
NonSuccessEnvelope ==
    /\ upstream # <<>>
    /\ LastOutcome.k = "responded"
    /\ LastOutcome.body.k = "return"
    /\ \/ IsNullish(LastOutcome.body.v)
       \/ ~Falsy(Get(LastOutcome.body.v, "error"))
       \/ Get(LastOutcome.body.v, "status") \in {JText("failure"), JText("error")}
       \/ LastOutcome.status \notin 200..299

(* C4: the code of a failure result names what triggered it:
   NETWORK_ERROR when the transport call itself failed, VALIDATION_ERROR
   when the share link could not be parsed or resolved to another entity
   type, API_ERROR when upstream answered with a non-success envelope. *)
C4_CodeIdentifiesTrigger ==
    Failed =>
        /\ (upstream # <<>> /\ LastOutcome.k = "rejected") =>
                result.value.code = NETWORK_ERROR
        /\ BadLink => result.value.code = VALIDATION_ERROR
        /\ NonSuccessEnvelope => result.value.code = API_ERROR

\* A raw search result as upstream sends it: an object whose id is a string
\* without surrounding blanks and whose image, when present, is a string.
WellFormedItem(item) ==
    /\ item.k = "object"
    /\ Filled(Get(item, "id"))
    /\ Trim(Get(item, "id").s) = Get(item, "id").s
    /\ Get(item, "image").k \in {"undefined", "string"}

\* Upstream answered searchSongs with a success response that has a results
\* list and no total.
ResultsWithoutTotal ==
    /\ op = "searchSongs"
    /\ Settled
    /\ upstream # <<>>
    /\ LastOutcome.k = "responded"
    /\ LastOutcome.status \in 200..299
    /\ LastOutcome.body.k = "return"
    /\ LastOutcome.body.v.k = "object"
    /\ DOMAIN LastOutcome.body.v.f = {"results"}
    /\ Get(LastOutcome.body.v, "results").k = "array"
    /\ \A i \in 1..Len(Get(LastOutcome.body.v, "results").items) :
            WellFormedItem(Get(LastOutcome.body.v, "results").items[i])

(* C6: searchSongs, answered with a success response that has a results
   list and no total, returns success with the preview of each raw result
   in upstream order, ids preserved, and data.total equal to the number of
   results. *)
C6_SearchSongsTotalIsCount ==
    ResultsWithoutTotal =>
        LET raw == Get(LastOutcome.body.v, "results").items IN
        /\ Succeeded
        /\ Get(result.value.data, "results").k = "array"
        /\ Len(Get(result.value.data, "results").items) = Len(raw)
        /\ \A i \in 1..Len(raw) :
                Get(Get(result.value.data, "results").items[i], "id")
                    = Get(raw[i], "id")
        /\ Get(result.value.data, "total") = JNum(Len(raw))

\* The path segments of a link, none when it is no string or no URL.
PathSegments(link) ==
    IF link.k # "string" THEN <<>>
    ELSE LET url == IF StartsWith(link.s, HttpWord)
                    THEN ParseURL(link.s) ELSE ParseURLWithBase(link.s)
         IN  IF url.ok THEN FilterNonEmpty(Split(url.pathname, Slash)) ELSE <<>>

RootType(root) ==
    CASE root = SongSegment -> "song"
      [] root = AlbumSegment -> "album"
      [] root = ArtistSegment -> "artist"
      [] root \in {PlaylistSegment, FeaturedSegment} -> "playlist"
      [] root = ShowSegment -> "show"
      [] OTHER -> "none"

(* C8: extractToken skips a leading short-link segment s, resolves the
   entity type from the next segment (song, album, artist, playlist or
   featured giving playlist, show) and returns the last path segment as the
   token; it returns nothing when the path has fewer than two segments or
   the root segment is unrecognized; a get-by-link operation given a link
   that resolves to nothing or to another entity's type fails without
   issuing a request, and otherwise requests the token and type resolved. *)
C8_ExtractTokenResolvesLinks ==
    (op \in ByLinkOps /\ pc # "idle" /\ ~IsNullish(args)) =>
        LET segments == PathSegments(Get(args, "link"))
            root == IF segments[1] = ShortLinkSegment
                    THEN segments[2] ELSE segments[1]
            recognized == Len(segments) >= 2 /\ RootType(root) # "none"
        IN  /\ recognized =>
                /\ extractedToken.k = "token"
                /\ extractedToken.type = RootType(root)
                /\ extractedToken.token = segments[Len(segments)]
            /\ ~recognized => extractedToken = JUndefined
            /\ (~recognized \/ RootType(root) # EntityOf(op)) =>
                /\ Failed
                /\ requests = <<>>
            /\ (recognized /\ RootType(root) = EntityOf(op)) =>
                /\ Len(requests) >= 1
                /\ requests[1].params.token = JStr(segments[Len(segments)])
                /\ requests[1].params.type = JText(EntityOf(op))

C8_Witness ==
    /\ op = "getPlaylistByLink"
    /\ pc = "awaiting"
    /\ Get(args, "link") =
            JStr(HttpsColon \o <<Slash, Slash, "h">>
                    \o JoinPath(<<ShortLinkSegment, FeaturedSegment, <<"x">>>>))
    /\ extractedToken = ExtractedToken("playlist", <<"x">>)
    /\ Len(requests) = 1

-----------------------------------------------------------------------------
(* wrapError *)

Wrapped == leaf.fn = "wrapError" /\ leaf.out # Pending

\* context is { ...mine, ...given }: the keys of both, the given value
\* where both have the key.
ContextMerged(mine, given, context) ==
    /\ DOMAIN OwnFields(context) = DOMAIN OwnFields(mine) \cup DOMAIN OwnFields(given)
    /\ \A key \in DOMAIN OwnFields(given) :
            OwnFields(context)[key] = OwnFields(given)[key]
    /\ \A key \in DOMAIN OwnFields(mine) \ DOMAIN OwnFields(given) :
            OwnFields(context)[key] = OwnFields(mine)[key]

\* The message read from a value that is a string, an Error or an object
\* with a string message; "none" for another value.
MessageCarried(error) ==
    IF TypeOf(error) = "string" THEN ToText(error)
    ELSE IF error.k = "Error" THEN error.message
    ELSE IF error.k = "object" /\ TypeOf(Get(error, "message")) = "string"
    THEN ToText(Get(error, "message"))
    ELSE "none"

CarriesMessage(error) ==
    \/ TypeOf(error) = "string"
    \/ error.k = "Error"
    \/ error.k = "object" /\ TypeOf(Get(error, "message")) = "string"

\* The serialization of a value: JSON of an object or an array, String(value)
\* of a primitive.
Serialized(error) ==
    IF error.k \in {"object", "array"} THEN JSONstringify(error) ELSE ToText(error)

(* C11 as stated: wrapError(error, kind, context) returns a structured error
   with code kind; of a structured error it keeps the message, the status
   code and the original cause and merges the contexts, the given keys
   winning; of another value the message is the string, the Error's message,
   the object's string message, or a serialization of the value. *)
C11_WrapErrorAsStated ==
    Wrapped =>
        LET error == leaf.in.error
            out == leaf.out
        IN  /\ IsJioSaavnError(out)
            /\ out.code = leaf.in.code
            /\ IsJioSaavnError(error) =>
                    /\ out.message = error.message
                    /\ out.statusCode = error.statusCode
                    /\ out.originalError = error.originalError
                    /\ ContextMerged(error.context, leaf.in.context, out.context)
            /\ (~IsJioSaavnError(error) /\ CarriesMessage(error)) =>
                    out.message = MessageCarried(error)
            /\ (~IsJioSaavnError(error) /\ ~CarriesMessage(error)) =>
                    out.message = Serialized(error)

(* C11, amended: as stated, except that the cause of a structured error is
   kept when it is truthy and is otherwise either kept or replaced by the
   wrapped error itself, and that a value without a message gives its
   serialization only when it is truthy and serializes: a falsy one gives
   "Unknown error", an object that fails to serialize gives "Unknown error
   object (failed to serialize)". *)
C11_WrapError ==
    Wrapped =>
        LET error == leaf.in.error
            out == leaf.out
        IN  /\ IsJioSaavnError(out)
            /\ out.code = leaf.in.code
            /\ IsJioSaavnError(error) =>
                    /\ out.message = error.message
                    /\ out.statusCode = error.statusCode
                    /\ out.originalError \in {error.originalError, error}
                    /\ ~Falsy(error.originalError) =>
                            out.originalError = error.originalError
                    /\ ContextMerged(error.context, leaf.in.context, out.context)
            /\ (~IsJioSaavnError(error) /\ CarriesMessage(error)) =>
                    out.message = MessageCarried(error)
            /\ (~IsJioSaavnError(error) /\ ~CarriesMessage(error)) =>
                    out.message =
                        IF error.k = "cyclic"
                        THEN "Unknown error object (failed to serialize)"
                        ELSE IF Falsy(error) THEN "Unknown error"
                        ELSE Serialized(error)

\* A structured error with a cause and a context is wrapped under another
\* code with a context that has one of its keys.
C11_Witness ==
    /\ Wrapped
    /\ IsJioSaavnError(leaf.in.error)
    /\ leaf.in.error.code = VALIDATION_ERROR
    /\ leaf.in.code = API_ERROR
    /\ leaf.in.error.originalError = JText("cause")
    /\ leaf.in.error.context = JObj([op |-> JText("search"), id |-> JNum(1)])
    /\ leaf.in.context = JObj([op |-> JText("wrap")])
    /\ leaf.out.context = JObj([op |-> JText("wrap"), id |-> JNum(1)])

-----------------------------------------------------------------------------
(* The entity parsers *)

Parsed == leaf.fn \in Parsers /\ leaf.out # Pending

(* C12: parseSong, parseAlbum, parseArtist and parsePlaylist throw only when
   their input is not an object; of every object, whatever its fields and
   the elements of its lists are, they return an entity. *)
C12_ParsersThrowOnlyOnNonObjects ==
    Parsed => (leaf.out.k = "throw" <=> ~isObject(leaf.in))

-----------------------------------------------------------------------------
(* Null in the data of a success result *)

\* No null in a value, at any depth.
RECURSIVE NullFree(_)
NullFree(v) ==
    CASE v.k = "null" -> FALSE
      [] v.k = "array" -> \A i \in 1..Len(v.items) : NullFree(v.items[i])
      [] v.k = "object" -> \A key \in DOMAIN v.f : NullFree(v.f[key])
      [] OTHER -> TRUE

(* C13: no field of an entity in the data of a success result is null; a raw
   field that is missing, null or malformed is undefined or left out. *)
C13_NoNullInSuccessData ==
    Succeeded => NullFree(result.value.data)

-----------------------------------------------------------------------------
(* Statement helpers for the calls in flight at the same time. *)

\* The request met a transport error or a non-success envelope.
RequestFailed(outcome) ==
    \/ outcome.k = "rejected"
    \/ /\ outcome.k = "responded"
       /\ \/ outcome.body.k = "throw"
          \/ outcome.status \notin 200..299
          \/ IsNullish(outcome.body.v)
          \/ ~Falsy(Get(outcome.body.v, "error"))
          \/ Get(outcome.body.v, "status") \in {JText("failure"), JText("error")}

IsFailure(settled) == settled.settled = "fulfilled" /\ ~settled.value.success

Waiting(c) == calls[c].pc = "awaiting"

(* C14: in getSongSuggestions the suggestions request is issued only after
   the station response has been received; when station creation fails
   (transport error or non-success envelope) the suggestions request is never
   issued and the operation returns a failure; while a call waits, every
   other call can be started and can receive its response. *)
C14_SuggestionsAfterStation ==
    \A c \in Calls :
        /\ calls[c].op = "getSongSuggestions" =>
            /\ Len(calls[c].requests) = 2 =>
                    /\ Len(calls[c].received) >= 1
                    /\ ~RequestFailed(calls[c].received[1])
            /\ (calls[c].received # <<>> /\ RequestFailed(calls[c].received[1])) =>
                    /\ Len(calls[c].requests) = 1
                    /\ calls[c].pc = "done"
                    /\ IsFailure(calls[c].result)
        /\ Waiting(c) =>
                \A d \in Calls \ {c} :
                    /\ calls[d].pc = "idle" => ENABLED Invoke(d)
                    /\ (Waiting(d) /\ calls[d].signal # "aborted") =>
                            ENABLED ResponseArrives(d)

\* One call failed at its station request and issued nothing more, while
\* another has its suggestions request outstanding.
C14_Witness ==
    \E c, d \in Calls :
        /\ calls[c].op = "getSongSuggestions"
        /\ calls[c].pc = "done"
        /\ RequestFailed(calls[c].received[1])
        /\ Len(calls[c].requests) = 1
        /\ calls[d].op = "getSongSuggestions"
        /\ Waiting(d)
        /\ Len(calls[d].requests) = 2

(* C15: the expiry of the deadline of a call aborts only the request of that
   call: when the timeout of call a fires, every other call b keeps its
   request, its signal and its result, and a call is aborted only by a
   deadline of its own request. *)
C15_TimeoutAbortsOnlyOwnRequest ==
    /\ [](\A b \in Calls :
            calls[b].signal = "aborted" =>
                ~Falsy(calls[b].requests[Len(calls[b].requests)].timeoutMs))
    /\ [][\A a \in Calls :
            (\E i \in DOMAIN calls[a].timers :
                calls[a].timers[i] = "pending" /\ calls'[a].timers[i] = "fired") =>
                \A b \in Calls \ {a} : calls'[b] = calls[b]]_vars

\* The timeout of one call has fired while another call, with a deadline of
\* its own, still waits for its response.
C15_Witness ==
    \E a, b \in Calls :
        /\ calls[a].signal = "aborted"
        /\ Waiting(b)
        /\ calls[b].signal = "armed"

(* C16: operations share no mutable state: a step of one call changes no
   other call, updateConfig and createClient change no call in flight, and
   both requests of one getSongSuggestions call use the same base URL,
   transport and timeout. *)
C16_NoSharedMutableState ==
    /\ [](\A c \in Calls :
            Len(calls[c].requests) = 2 =>
                /\ calls[c].requests[1].baseUrl = calls[c].requests[2].baseUrl
                /\ calls[c].requests[1].fetchImpl = calls[c].requests[2].fetchImpl
                /\ calls[c].requests[1].timeoutMs = calls[c].requests[2].timeoutMs)
    /\ [][(config' # config \/ defaultClient' # defaultClient) =>
                calls' = calls]_vars
    /\ [][\A c \in Calls :
            calls'[c] # calls[c] =>
                \A d \in Calls \ {c} : calls'[d] = calls[d]]_vars

(* C17: the three leaf helpers (extractToken, createImageSources,
   createDownloadLinks) never throw, whatever the input, and return an empty
   result (undefined or []) when the input is falsy or not a string. *)
C17_LeafHelpersNeverThrow ==
    (leaf.fn \in {"extractToken", "createImageSources", "createDownloadLinks"}
        /\ leaf.out # Pending) =>
        /\ leaf.out.k = "return"
        /\ LET given == IF leaf.fn = "createDownloadLinks"
                        THEN leaf.in.encryptedMediaUrl ELSE leaf.in
           IN  (Falsy(given) \/ given.k # "string") =>
                    leaf.out.v \in {JUndefined, <<>>}

\* A response whose body is null, or carries an error, or has status
\* "failure" or "error".
NonSuccessBody(outcome) ==
    /\ outcome.k = "responded"
    /\ outcome.body.k = "return"
    /\ \/ IsNullish(outcome.body.v)
       \/ ~Falsy(Get(outcome.body.v, "error"))
       \/ Get(outcome.body.v, "status") \in {JText("failure"), JText("error")}

(* C18: a response whose body is null, or carries an error (an error field
   that is set), or has status "failure" or "error", never produces a success
   result, whatever the HTTP status: the operation returns a failure. *)
C18_NonSuccessBodyFails ==
    \A i \in DOMAIN upstream : NonSuccessBody(upstream[i]) => Failed

\* An operation answered with HTTP 200 and a body that carries an error has
\* returned a failure.
C18_Witness ==
    /\ Failed
    /\ upstream # <<>>
    /\ NonSuccessBody(LastOutcome)
    /\ LastOutcome.status = 200
    /\ ~IsNullish(LastOutcome.body.v)
    /\ ~Falsy(Get(LastOutcome.body.v, "error"))

(* C19: the client performs no automatic retry: a call issues at most one
   transport request (getSongSuggestions at most two, one per step), never
   the same request twice, and after a request failed (transport error or
   non-success envelope) it issues no request more and is settled. *)
C19_NoAutomaticRetry ==
    /\ [](Len(requests) <= (IF op = "getSongSuggestions" THEN 2 ELSE 1))
    /\ [](\A i, j \in DOMAIN requests : i # j => requests[i] # requests[j])
    /\ [][(upstream' # upstream /\ RequestFailed(upstream'[Len(upstream')])) =>
                (requests' = requests /\ pc' = "done")]_vars

\* The second request of getSongSuggestions failed and the call ended with
\* the two requests it had issued.
C19_Witness ==
    /\ op = "getSongSuggestions"
    /\ Failed
    /\ Len(requests) = 2
    /\ Len(upstream) = 2
    /\ RequestFailed(upstream[2])

\* The invocations of fn among the events of the retry call, in order.
Attempts == SelectSeq(leaf.events, LAMBDA ev : ev.e = "fn")

(* C20: retry(fn, {retries}) invokes fn sequentially and at most retries + 1
   times; it returns the result of the first attempt that succeeds and
   invokes fn no more; when every attempt fails it rethrows the error of the
   last attempt; there is one backoff wait between consecutive attempts and
   none after the final failed attempt. *)
C20_Retry ==
    leaf.fn = "retry" =>
        /\ Len(Attempts) <= RetriesOf(leaf.in) + 1
        /\ \A i \in DOMAIN leaf.events :
                leaf.events[i].e = (IF i % 2 = 1 THEN "fn" ELSE "delay")
        /\ \A i \in 1..(Len(Attempts) - 1) : Attempts[i].outcome.k = "throw"
        /\ (leaf.out # Pending /\ leaf.out.k = "return") =>
                /\ leaf.pc = "done"
                /\ leaf.events[Len(leaf.events)] = Invoked(leaf.out)
        /\ (leaf.out # Pending /\ leaf.out.k = "throw" /\ Attempts # <<>>) =>
                /\ leaf.pc = "done"
                /\ Len(Attempts) = RetriesOf(leaf.in) + 1
                /\ leaf.events[Len(leaf.events)] = Invoked(leaf.out)
        /\ leaf.pc = "done" => ~ENABLED RetryInvokes

\* Three attempts failed, with a wait after the first and after the second,
\* and the error of the third was rethrown.
C20_Witness ==
    /\ leaf.fn = "retry"
    /\ leaf.pc = "done"
    /\ RetriesOf(leaf.in) = 2
    /\ Len(leaf.events) = 5
    /\ leaf.out = Throw(NativeError("Error", "attempt 2"))

\* A string that denotes a number: digits, with blanks around them or not.
NumericString(v) ==
    /\ v.k = "string"
    /\ Trim(v.s) # <<>>
    /\ \A i \in 1..Len(Trim(v.s)) : Trim(v.s)[i] \in Digits

(* C21: toNumber returns the number a numeric string denotes, and undefined
   for every value that is not a finite number, the missing values
   (undefined, null, the empty string) included. *)
C21_ToNumber ==
    (leaf.fn = "toNumber" /\ leaf.out # Pending) =>
        /\ NumericString(leaf.in) =>
                leaf.out = JNum(DecimalValue(Trim(leaf.in.s)))
        /\ (leaf.in.k # "number" /\ ~NumericString(leaf.in)) =>
                leaf.out = JUndefined

\* No key of the value, at any depth, has the value undefined.
RECURSIVE UndefinedFree(_)
UndefinedFree(v) ==
    IF v.k = "object"
    THEN \A key \in DOMAIN v.f :
            v.f[key] # JUndefined /\ UndefinedFree(v.f[key])
    ELSE IF v.k = "array"
    THEN \A i \in DOMAIN v.items : UndefinedFree(v.items[i])
    ELSE TRUE

(* C22: in the data of every success result no key at any depth has the
   value undefined, for object payloads and for array payloads
   (getSongsById, getSongSuggestions) alike. *)
C22_NoUndefinedInSuccessData == Succeeded => UndefinedFree(result.value.data)

(* C23: getSongSuggestions returns at most limit songs (10 when no limit is
   given), whatever number of entries the upstream response holds. *)
C23_SuggestionsAtMostLimit ==
    (op = "getSongSuggestions" /\ Succeeded) =>
        Len(result.value.data.items) <= Default(Get(args, "limit"), JNum(10)).n

\* The station response the client accepted, when it did.
StationAccepted ==
    /\ op = "getSongSuggestions"
    /\ upstream # <<>>
    /\ Handled(upstream[1]).k = "return"

(* C25: getSongSuggestions issues the suggestions request only with a
   station id returned by the station step: when the station response is a
   success envelope without a station id the operation fails and no second
   request is issued. *)
C25_SuggestionsNeedStationId ==
    /\ (op = "getSongSuggestions" /\ Len(requests) = 2) =>
            /\ StationAccepted
            /\ "stationid" \in DOMAIN requests[2].params
            /\ requests[2].params.stationid = OptGet(Handled(upstream[1]).v, "stationid")
    /\ (StationAccepted /\ Falsy(OptGet(Handled(upstream[1]).v, "stationid"))) =>
            /\ Len(requests) = 1
            /\ Failed

\* A playlist share URL: host jiosaavn.com or saavn.com and the path
\* featured/<slug>/<token> or s/playlist/<slug>/<token>.
PlaylistShareUrl(url) ==
    /\ EndsWithHost(url[4])
    /\ \E slug, token \in PathWords :
            \/ SubSeq(url, 5, Len(url)) = <<"/", "featured", "/", slug, "/", token>>
            \/ SubSeq(url, 5, Len(url)) =
                    <<"/", "s", "/", "playlist", "/", slug, "/", token>>

(* C24: tokenExtractors.playlist returns a token only for a playlist share
   URL, the last segment of its path, and undefined for every other URL. *)
C24_PlaylistTokenOnlyForPlaylists ==
    (leaf.fn = "tokenExtractors.playlist" /\ leaf.out # Pending) =>
        IF PlaylistShareUrl(leaf.in)
        THEN leaf.out = JStr(<<leaf.in[Len(leaf.in)]>>)
        ELSE leaf.out = JUndefined

(* C26: in every get-by-link operation the token extraction and the check
   of the entity type come before any transport request: a request has been
   issued only for a link that resolved to the entity of the operation, and
   a link that fails extraction or resolves to another type causes no
   request and a failure. *)
C26_LinkCheckedBeforeRequest ==
    op \in ByLinkOps =>
        /\ requests # <<>> =>
                /\ extractedToken # JUndefined
                /\ extractedToken.type = EntityOf(op)
        /\ BadLink => (requests = <<>> /\ upstream = <<>> /\ Failed)

\* getSongByLink was given the link of an album and failed without a
\* request.
C26_Witness ==
    /\ op = "getSongByLink"
    /\ extractedToken # JUndefined
    /\ extractedToken.type = "album"
    /\ Failed
    /\ requests = <<>>

(* C27: when a fetchFromSaavn call made with timeoutMs has finished, by a
   response or by the transport rejecting, its timer is no longer pending:
   no timer fires after its request has completed. *)
C27_NoTimerLeftPending ==
    \A c \in Calls :
        \A i \in DOMAIN calls[c].timers :
            (i < Len(calls[c].requests) \/ calls[c].pc = "done") =>
                calls[c].timers[i] # "pending"

(* C28: retry(fn) with fn calling an operation of the client invokes the
   operation exactly once whatever the transport does: the operation resolves
   with a failure value instead of throwing, the failed call is returned as
   the result of retry and no further attempt or backoff wait is made (for
   every retries >= 0, the default 3 included). *)
C28_RetryCallsOperationOnce ==
    RetriesOf(leaf.in) >= 0 =>
        /\ Len(Attempts) <= 1
        /\ ~\E i \in DOMAIN leaf.events : leaf.events[i].e = "delay"
        /\ leaf.pc # "delay"
        /\ (Len(Attempts) = 1) = (leaf.pc = "done")
        /\ leaf.pc = "done" =>
                /\ result.settled = "fulfilled"
                /\ leaf.out = Return(result.value)

\* retry with the default of three retries has returned the failure of an
\* operation whose transport rejected, after one invocation.
C28_Witness ==
    /\ leaf.pc = "done"
    /\ RetriesOf(leaf.in) = DefaultRetries
    /\ Failed
    /\ \E i \in DOMAIN upstream : upstream[i].k = "rejected"
    /\ Len(Attempts) = 1
    /\ leaf.out = Return(result.value)

\* The place in the path of the segment that selects the entity type.
TypeSegment(segments) == IF segments[1] = ShortLinkSegment THEN 2 ELSE 1

(* C29: whenever extractToken returns a result, the token is a segment of the
   path other than the one that selected the entity type: the last segment
   lies after the type segment, so a short link of two segments, the marker
   and the type word, does not yield the type word as its token. *)
C29_TokenIsNotTypeSegment ==
    (leaf.fn = "extractToken" /\ leaf.out # Pending /\ leaf.out.v # JUndefined) =>
        Len(PathSegments(leaf.in)) > TypeSegment(PathSegments(leaf.in))

\* The text s holds the marker somewhere.
HasMarker(s, marker) == \E i \in 1..Len(s) : MatchAt(s, i, marker)

(* C30: for every base image URL that contains one of the three resolution
   markers 50x50, 150x150 and 500x500, the three variant URLs are pairwise
   distinct and the i-th one contains the i-th target resolution. *)
C30_VariantsDistinct ==
    (leaf.fn = "createImageSources" /\ leaf.out # Pending
        /\ leaf.in.k = "string"
        /\ \E q \in {Res50, Res150, Res500} : HasMarker(leaf.in.s, q)) =>
        /\ leaf.out.k = "return"
        /\ Len(leaf.out.v) = 3
        /\ \A i \in 1..3 : HasMarker(leaf.out.v[i].url, IMAGE_QUALITIES[i])
        /\ \A i, j \in 1..3 : i # j => leaf.out.v[i].url # leaf.out.v[j].url

====
